---- MODULE Spec2Model ----
(***************************************************************************)
(* Analytics and summary-generation core of the skill-gap analyzer         *)
(* backend (Backend/app/api/career_advisor.py, gap_analysis.py,            *)
(* trends.py, market.py).                                                  *)
(*                                                                         *)
(* Numbers.  Python floats and DECIMAL columns are kept as integers in     *)
(* hundredths (2.5 is 250, a demand of 76 is 7600).  Scores returned by    *)
(* the calculate_* functions are Python ints and are kept as plain         *)
(* integers.  Divisions are carried out exactly on the scaled integers;    *)
(* int() of a non-negative float is the floor.                             *)
(***************************************************************************)
EXTENDS Integers, Sequences, FiniteSets, TLC

VARIABLES
    n_raw, n_prof, n_dem,                 \* normalizer harness
    h_found, h_skills, h_failed, h_ulps, h_result, \* get_career_health request
    g_user, g_roles, g_selected, g_market, g_result, \* calculate_gap_analysis call
    s_demand, s_current, s_target, s_impact, \* calculate_salary_impact call
    api_owned, api_roles, api_market, api_requests, \* get_gap_analysis
    y_name, y_months, y_result,           \* _generate_synthetic_trend_data call
    t_history, t_market, t_today, t_query, t_response, \* get_market_trends
    openai_client, db_skills, cache, now, requests, \* generate_career_summary
    a_skills, a_pc, a_attempt, a_retry_delay, a_slept, a_calls, a_outcomes,
    a_parsed, a_content, a_result,        \* _generate_ai_summary call
    md_table, cached_data, last_cache_time, md_now, md_requests \* get_market_demand

normVars   == <<n_raw, n_prof, n_dem>>
healthVars == <<h_found, h_skills, h_failed, h_ulps, h_result>>
gapVars    == <<g_user, g_roles, g_selected, g_market, g_result>>
salaryVars == <<s_demand, s_current, s_target, s_impact>>
apiVars    == <<api_owned, api_roles, api_market, api_requests>>
synthVars  == <<y_name, y_months, y_result>>
trendVars  == <<t_history, t_market, t_today, t_query, t_response>>
pipeVars   == <<openai_client, db_skills, cache, now, requests>>
aiVars     == <<a_skills, a_pc, a_attempt, a_retry_delay, a_slept, a_calls,
                a_outcomes, a_parsed, a_content, a_result>>
marketVars == <<md_table, cached_data, last_cache_time, md_now, md_requests>>
vars       == <<normVars, healthVars, gapVars, salaryVars, apiVars, synthVars,
                trendVars, pipeVars, aiVars, marketVars>>

Min(a, b) == IF a < b THEN a ELSE b
Max(a, b) == IF a > b THEN a ELSE b
Clamp(lo, hi, x) == Max(lo, Min(hi, x))

RECURSIVE SeqSum(_)
SeqSum(s) == IF s = <<>> THEN 0 ELSE Head(s) + SeqSum(Tail(s))

-----------------------------------------------------------------------------
(* Module constants, career_advisor.py:25-28                               *)
DEFAULT_PROFICIENCY == 3
DEFAULT_MARKET_DEMAND == 50
DEFAULT_HEALTH_SCORE == 50
MIN_SKILLS_FOR_ACCURATE_CALC == 3

-----------------------------------------------------------------------------
(* Raw values handed to the normalizers: None, a number (hundredths), the  *)
(* empty string, or a string float() cannot parse.                         *)
NoneVal   == [k |-> "none", v |-> 0]
EmptyText == [k |-> "empty", v |-> 0]
BadText   == [k |-> "text", v |-> 0]
Num(x)    == [k |-> "num", v |-> x]

\* Python truthiness of a raw value: None, 0, 0.0, Decimal(0) and "" are falsy.
Truthy(p) == \/ p.k = "text"
             \/ p.k = "num" /\ p.v # 0

(* career_advisor.py:456-480.  The first definition of the name; the       *)
(* module rebinds the name at line 3215, so no caller ever reaches it.     *)
(* The rescaling p/100*5 is exact in hundredths for the multiples of 0.2.  *)
_normalize_proficiency_shadowed(p) ==
    IF p.k = "none" THEN DEFAULT_PROFICIENCY * 100
    ELSE IF p.k # "num" THEN DEFAULT_PROFICIENCY * 100     \* ValueError
    ELSE LET q == IF p.v > 500 THEN (p.v * 5) \div 100 ELSE p.v
         IN  Max(100, Min(500, q))

(* career_advisor.py:483-507.  First definition, rebound at line 3224.     *)
_normalize_market_demand_shadowed(d) ==
    IF d.k = "none" THEN DEFAULT_MARKET_DEMAND * 100
    ELSE IF d.k # "num" THEN DEFAULT_MARKET_DEMAND * 100   \* ValueError
    ELSE LET q == IF 0 <= d.v /\ d.v <= 100 THEN d.v * 100 ELSE d.v
         IN  Max(0, Min(10000, q))

(* career_advisor.py:3215-3221.  The definition every caller gets: the     *)
(* module-level name is looked up at call time, after the whole module has *)
(* been executed.  float(p) if p else DEFAULT; min(5.0, max(0.0, prof));   *)
(* any exception gives DEFAULT.                                            *)
_normalize_proficiency(proficiency) ==
    IF ~Truthy(proficiency) THEN Min(500, Max(0, DEFAULT_PROFICIENCY * 100))
    ELSE IF proficiency.k = "num" THEN Min(500, Max(0, proficiency.v))
    ELSE DEFAULT_PROFICIENCY * 100                         \* bare except

(* career_advisor.py:3224-3230.  The definition every caller gets.         *)
_normalize_market_demand(demand) ==
    IF ~Truthy(demand) THEN Min(10000, Max(0, DEFAULT_MARKET_DEMAND * 100))
    ELSE IF demand.k = "num" THEN Min(10000, Max(0, demand.v))
    ELSE DEFAULT_MARKET_DEMAND * 100                       \* bare except

-----------------------------------------------------------------------------
(* Normalizer harness: a raw value is drawn, each normalizer is applied.   *)
MaxRawSmall == 70    \* raw values -2.0 .. 7.0 in steps of 0.1
MaxRawLarge == 13    \* raw values 10 .. 130 in steps of 10

RawInputs ==
    {NoneVal, EmptyText, BadText}
    \cup {Num(k * 10) : k \in -20 .. MaxRawSmall}
    \cup {Num(k * 1000) : k \in 1 .. MaxRawLarge}

Unset == 0 - 1

NormInit == /\ n_raw \in RawInputs
            /\ n_prof = Unset
            /\ n_dem = Unset

NormIdle == /\ n_raw = NoneVal
            /\ n_prof = Unset
            /\ n_dem = Unset

ApplyNormalizeProficiency ==
    /\ n_prof = Unset
    /\ n_prof' = _normalize_proficiency(n_raw)
    /\ UNCHANGED <<n_raw, n_dem>>

ApplyNormalizeMarketDemand ==
    /\ n_dem = Unset
    /\ n_dem' = _normalize_market_demand(n_raw)
    /\ UNCHANGED <<n_raw, n_prof>>

-----------------------------------------------------------------------------
(* ScoreEngine, career_advisor.py:510-656.  A normalized skill is a record *)
(* [proficiency, market_demand], both in hundredths.                       *)

Profs(skills)   == [i \in 1 .. Len(skills) |-> skills[i].proficiency]
Demands(skills) == [i \in 1 .. Len(skills) |-> skills[i].market_demand]
Weighted(skills) ==
    [i \in 1 .. Len(skills) |-> skills[i].proficiency * skills[i].market_demand]
CountAbove(s, limit) == Cardinality({i \in 1 .. Len(s) : s[i] > limit})

\* sorted(): ascending insertion sort.
RECURSIVE Insert(_, _)
Insert(x, s) == IF s = <<>> THEN <<x>>
                ELSE IF x <= Head(s) THEN <<x>> \o s
                ELSE <<Head(s)>> \o Insert(x, Tail(s))
RECURSIVE Sorted(_)
Sorted(s) == IF s = <<>> THEN <<>> ELSE Insert(Head(s), Sorted(Tail(s)))

\* statistics.median, doubled so that it stays an integer: the middle
\* element twice, or the sum of the two middle elements.
Median2(s) ==
    LET t == Sorted(s)
        n == Len(t)
    IN  IF n % 2 = 1 THEN 2 * t[(n + 1) \div 2]
        ELSE t[n \div 2] + t[n \div 2 + 1]

\* round() of k/4: Python rounds a half to the even neighbour.
RoundQuarter(k) ==
    LET q == k \div 4
        r == k % 4
    IN  IF r < 2 THEN q
        ELSE IF r > 2 THEN q + 1
        ELSE IF q % 2 = 0 THEN q ELSE q + 1

(* int(x) of a float x = num/den >= 0.  The source computes x in binary    *)
(* floating point: when the exact quotient is a whole number k >= 1 the    *)
(* computed sum can land just below k and int() then gives k - 1           *)
(* (5.0*0.7 + 3*0.5 over 15, times 100, plus 20/3 is 39.99999999999999).   *)
(* `ulp` says whether that happened; otherwise int() is the exact floor.   *)
IntOf(num, den, ulp) ==
    LET q == num \div den
    IN  IF ulp /\ num % den = 0 /\ q >= 1 THEN q - 1 ELSE q

(* career_advisor.py:510-548.                                              *)
(*   base  = sum(p * d/100) / (n*5) * 100                                  *)
(*   bonus = count(d > 70) / n * 20                                        *)
(*   min(100, int(base + bonus))                                           *)
RelevanceNum(skills) ==
    SeqSum(Weighted(skills)) + CountAbove(Demands(skills), 7000) * 1000000
RelevanceDen(skills) == 50000 * Len(skills)

calculate_skills_relevance(skills, ulp) ==
    IF skills = <<>> THEN DEFAULT_HEALTH_SCORE
    ELSE Min(100, IntOf(RelevanceNum(skills), RelevanceDen(skills), ulp))

(* career_advisor.py:551-582.  int(sum(d*p) / sum(p)), 50 when sum(p) = 0. *)
AlignmentNum(skills) == SeqSum(Weighted(skills))
AlignmentDen(skills) == 100 * SeqSum(Profs(skills))

calculate_market_alignment(skills, ulp) ==
    IF skills = <<>> THEN DEFAULT_HEALTH_SCORE
    ELSE IF SeqSum(Profs(skills)) = 0 THEN DEFAULT_HEALTH_SCORE
    ELSE Max(0, Min(100,
             IntOf(AlignmentNum(skills), AlignmentDen(skills), ulp)))

(* career_advisor.py:585-619.                                              *)
(*   int(mean(p)/5*60 + min(n/20, 1.0)*40), clamped to 0..100              *)
TrajectoryNum(skills) ==
    3 * SeqSum(Profs(skills)) + 25 * Len(skills) * Min(2 * Len(skills), 40)
TrajectoryDen(skills) == 25 * Len(skills)

calculate_learning_trajectory(skills, ulp) ==
    IF skills = <<>> THEN DEFAULT_HEALTH_SCORE
    ELSE Max(0, Min(100,
             IntOf(TrajectoryNum(skills), TrajectoryDen(skills), ulp)))

(* career_advisor.py:622-656.                                              *)
(*   int(median(d) + count(d > 75)/n * 10), clamped to 0..100              *)
IndustryNum(skills) ==
    Median2(Demands(skills)) * Len(skills)
        + 2000 * CountAbove(Demands(skills), 7500)
IndustryDen(skills) == 200 * Len(skills)

\* A mutant: the final clamp to 0..100 is left out.
calculate_industry_demand_unclamped(skills, ulp) ==
    IF skills = <<>> THEN DEFAULT_HEALTH_SCORE
    ELSE IntOf(IndustryNum(skills), IndustryDen(skills), ulp)

calculate_industry_demand(skills, ulp) ==
    IF skills = <<>> THEN DEFAULT_HEALTH_SCORE
    ELSE Max(0, Min(100,
             IntOf(IndustryNum(skills), IndustryDen(skills), ulp)))

-----------------------------------------------------------------------------
(* get_career_health, career_advisor.py:314-453.                           *)
(* `ulps` names the sub-scores whose float sum fell just below a whole     *)
(* number (see IntOf).                                                     *)
(* A candidate_skills row carries its raw proficiency and the demand_score *)
(* of the SkillMarketData row found for its skill (NoneVal: no such row).  *)
(* `failed` holds the indices of the rows whose processing raises inside   *)
(* the per-skill try block (a failed lookup); those rows are skipped.      *)

NoWarning == "absent"

HealthResult(status, sr, ma, lt, id, os, dq, analysed, warning) ==
    [status |-> status, skills_relevance |-> sr, market_alignment |-> ma,
     learning_trajectory |-> lt, industry_demand |-> id, overall_score |-> os,
     data_quality |-> dq, skills_analyzed |-> analysed, warning |-> warning]

\* career_advisor.py:355-366 and 397-408: every score is the default.
DefaultHealth(analysed, warning) ==
    HealthResult(200, DEFAULT_HEALTH_SCORE, DEFAULT_HEALTH_SCORE,
                 DEFAULT_HEALTH_SCORE, DEFAULT_HEALTH_SCORE,
                 DEFAULT_HEALTH_SCORE, "insufficient", analysed, warning)

\* career_advisor.py:381-388: one row, normalized.
NormalizedSkill(row) ==
    [proficiency   |-> _normalize_proficiency(row.proficiency),
     market_demand |-> _normalize_market_demand(
                          IF row.market = NoneVal
                          THEN Num(DEFAULT_MARKET_DEMAND * 100)
                          ELSE row.market)]

\* career_advisor.py:369-392: the rows that were processed, in order.
RECURSIVE NormalizeFrom(_, _, _)
NormalizeFrom(rows, failed, i) ==
    IF i > Len(rows) THEN <<>>
    ELSE (IF i \in failed THEN <<>> ELSE <<NormalizedSkill(rows[i])>>)
         \o NormalizeFrom(rows, failed, i + 1)

\* A mutant: strict comparisons.
DataQuality_strict(n) ==
    IF n > 10 THEN "excellent"
    ELSE IF n > 5 THEN "good"
    ELSE IF n > MIN_SKILLS_FOR_ACCURATE_CALC THEN "fair"
    ELSE "limited"

\* career_advisor.py:421-425.
DataQuality(n) ==
    IF n >= 10 THEN "excellent"
    ELSE IF n >= 5 THEN "good"
    ELSE IF n >= MIN_SKILLS_FOR_ACCURATE_CALC THEN "fair"
    ELSE "limited"

\* career_advisor.py:416-419.
OverallScore(sr, ma, lt, id) == RoundQuarter(sr + ma + lt + id)

get_career_health(found, candidate_skills, failed, ulps) ==
    IF ~found THEN HealthResult(404, 0, 0, 0, 0, 0, "", 0, NoWarning)
    ELSE IF Len(candidate_skills) = 0 THEN DefaultHealth(0, "no_skills")
    ELSE LET normalized_skills == NormalizeFrom(candidate_skills, failed, 1)
             n  == Len(normalized_skills)
             sr == calculate_skills_relevance(normalized_skills, "sr" \in ulps)
             ma == calculate_market_alignment(normalized_skills, "ma" \in ulps)
             lt == calculate_learning_trajectory(normalized_skills, "lt" \in ulps)
             id == calculate_industry_demand(normalized_skills, "id" \in ulps)
         IN  IF n = 0
             THEN DefaultHealth(Len(candidate_skills), "no_market_data")
             ELSE HealthResult(200, sr, ma, lt, id, OverallScore(sr, ma, lt, id),
                               DataQuality(n), n,
                               IF n < MIN_SKILLS_FOR_ACCURATE_CALC
                               THEN "low_count" ELSE NoWarning)

(* Inputs of the health request: every list of up to MaxVaried rows drawn  *)
(* from SkillRows with any set of failing rows, and longer lists of one    *)
(* repeated row, up to MaxCount rows, of which a prefix fails.             *)
MaxVaried == 3
MaxCount == 11

SkillRows ==
    { [proficiency |-> Num(-100), market |-> Num(10000)],  \* clamps to 0
      [proficiency |-> NoneVal,   market |-> NoneVal],     \* both defaults
      [proficiency |-> Num(250),  market |-> Num(7600)],
      [proficiency |-> Num(500),  market |-> Num(7000)],
      [proficiency |-> Num(500),  market |-> Num(10000)],
      [proficiency |-> Num(999),  market |-> Num(-500)] }  \* clamps to 5, 0

SeqsUpTo(S, n) == UNION {[1 .. k -> S] : k \in 0 .. n}

\* The sub-scores whose exact value is a whole number >= 1, where the float
\* computation may undershoot.
Whole(num, den) == den > 0 /\ num % den = 0 /\ num \div den >= 1
Inexact(skills) ==
    IF skills = <<>> THEN {}
    ELSE {x \in {"sr", "ma", "lt", "id"} :
            \/ x = "sr" /\ Whole(RelevanceNum(skills), RelevanceDen(skills))
            \/ x = "ma" /\ Whole(AlignmentNum(skills), AlignmentDen(skills))
            \/ x = "lt" /\ Whole(TrajectoryNum(skills), TrajectoryDen(skills))
            \/ x = "id" /\ Whole(IndustryNum(skills), IndustryDen(skills))}

NoHealthResult == HealthResult(0, 0, 0, 0, 0, 0, "", 0, NoWarning)

HealthInit ==
    /\ h_found \in BOOLEAN
    /\ \/ /\ h_skills \in SeqsUpTo(SkillRows, MaxVaried)
          /\ h_failed \in SUBSET (1 .. Len(h_skills))
       \/ /\ \E row \in SkillRows, k \in MaxVaried + 1 .. MaxCount :
                 h_skills = [i \in 1 .. k |-> row]
          /\ \E f \in 0 .. Len(h_skills) : h_failed = 1 .. f
    /\ h_ulps \in SUBSET Inexact(NormalizeFrom(h_skills, h_failed, 1))
    /\ h_result = NoHealthResult

HealthIdle ==
    /\ h_found = FALSE
    /\ h_skills = <<>>
    /\ h_failed = {}
    /\ h_ulps = {}
    /\ h_result = NoHealthResult

GetCareerHealth ==
    /\ h_result = NoHealthResult
    /\ h_result' = get_career_health(h_found, h_skills, h_failed, h_ulps)
    /\ UNCHANGED <<h_found, h_skills, h_failed, h_ulps>>

-----------------------------------------------------------------------------
(* GapAnalyzer, gap_analysis.py:50-214.                                    *)
(* Skill and role names are strings; str.lower() is the table Lower.       *)
(* A dict of skills (required_skills, optional_skills) is the sequence of  *)
(* its items in insertion order, each [name, importance, min_proficiency]; *)
(* "absent" / Absent mark a key the JSON item does not carry.  The output  *)
(* fields category and insight (text derived from the name alone) are left *)
(* out.  salaryImpact is in tenths of a lakh.                              *)

Absent == 0 - 1

Lower(str) ==
    CASE str \in {"Python", "python", "PYTHON"} -> "python"
      [] str \in {"SQL", "sql"} -> "sql"
      [] str \in {"Docker", "docker"} -> "docker"
      [] str \in {"Git", "git"} -> "git"
      [] str \in {"Rust", "rust"} -> "rust"
      [] str \in {"Backend Developer", "backend developer"} -> "backend developer"
      [] str \in {"Data Analyst", "DATA ANALYST"} -> "data analyst"
      [] str \in {"Software Developer", "software developer"} -> "software developer"
      [] str \in {"REST APIs", "rest apis"} -> "rest apis"
      [] str \in {"JavaScript", "javascript"} -> "javascript"
      [] OTHER -> str

LowerAll(names) == [i \in 1 .. Len(names) |-> Lower(names[i])]
Elems(seq) == {seq[i] : i \in 1 .. Len(seq)}

\* A mutant: the estimate is not raised to the minimum of 1.5 lakhs.
calculate_salary_impact_nofloor(market_demand, current_prof, target_prof) ==
    LET demand == Clamp(30, 100, market_demand)
        impact == demand * Max(3, 2 * (target_prof - current_prof))
        capped == Min(15000, impact)
        q      == capped \div 100
        r      == capped % 100
    IN  IF r < 50 THEN q
        ELSE IF r > 50 THEN q + 1
        ELSE IF q % 2 = 0 THEN q ELSE q + 1

\* A mutant: the base value is ten times too large.
calculate_salary_impact_tenfold(market_demand, current_prof, target_prof) ==
    LET demand == Clamp(30, 100, market_demand)
        impact == demand * 10 * Max(3, 2 * (target_prof - current_prof))
        capped == Clamp(1500, 15000, impact)
        q      == capped \div 100
        r      == capped % 100
    IN  IF r < 50 THEN q
        ELSE IF r > 50 THEN q + 1
        ELSE IF q % 2 = 0 THEN q ELSE q + 1

(* gap_analysis.py:183-214.  demand an integer score, proficiencies        *)
(* integers.  impact = clamp(30,100,demand)*1000 * max(0.3, (t-c)/5)       *)
(* / 100000 lakhs, i.e. demand * max(3, 2*(t-c)) thousandths of a lakh;    *)
(* clamped to 1.5 .. 15 and rounded to one decimal (a half goes to the     *)
(* even tenth).                                                            *)
calculate_salary_impact(market_demand, current_prof, target_prof) ==
    LET demand == Clamp(30, 100, market_demand)
        impact == demand * Max(3, 2 * (target_prof - current_prof))
        capped == Clamp(1500, 15000, impact)
        q      == capped \div 100
        r      == capped % 100
    IN  IF r < 50 THEN q
        ELSE IF r > 50 THEN q + 1
        ELSE IF q % 2 = 0 THEN q ELSE q + 1

\* gap_analysis.py:66-72: the index of the first role whose name matches,
\* or 0 when there is none (role_data stays None).
FindRole(roles_list, selected_role) ==
    LET hits == {i \in 1 .. Len(roles_list) :
                    Lower(roles_list[i].role_name) = Lower(selected_role)}
    IN  IF hits = {} THEN 0
        ELSE CHOOSE i \in hits : \A j \in hits : i <= j

\* dict.get(key, default) on the market lookup and on a skill's info.
MarketGet(market_data, name_lower, field, default) ==
    IF name_lower \in DOMAIN market_data /\ market_data[name_lower][field] # Absent
    THEN market_data[name_lower][field] ELSE default

SalaryOf(market_data, name_lower, market_demand, proficiency) ==
    LET given == MarketGet(market_data, name_lower, "salary_impact", Absent)
    IN  IF given = Absent \/ given = 0        \* None or 0
        THEN calculate_salary_impact(market_demand, 0, proficiency)
        ELSE given

\* gap_analysis.py:92-126: one required skill gives one entry.
RequiredEntry(item, user_skills_lower, market_data) ==
    LET skill_name_lower == Lower(item.name)
        importance == IF item.importance = "absent" THEN "High"
                      ELSE item.importance
        proficiency_required == IF item.min_proficiency = Absent THEN 3
                                ELSE item.min_proficiency
        market_demand == MarketGet(market_data, skill_name_lower,
                                   "demand_score", 75)
    IN  IF skill_name_lower \notin Elems(user_skills_lower)
        THEN [list |-> "critical_gaps", name |-> item.name,
              priority |-> IF importance \in {"Critical", "High"}
                           THEN "High" ELSE "Medium",
              marketDemand |-> market_demand,
              salaryImpact |-> SalaryOf(market_data, skill_name_lower,
                                        market_demand, proficiency_required),
              learningTime |-> MarketGet(market_data, skill_name_lower,
                                         "learning_hours", 200),
              proficiency |-> proficiency_required,
              gap |-> Absent, matchPercentage |-> Absent]
        ELSE [list |-> "matching_skills", name |-> item.name,
              priority |-> "", marketDemand |-> Absent,
              salaryImpact |-> Absent, learningTime |-> Absent,
              proficiency |-> Absent, gap |-> Absent,
              matchPercentage |-> 95]

\* gap_analysis.py:129-164: one optional skill gives one entry.
OptionalEntry(item, user_skills_lower, market_data) ==
    LET skill_name_lower == Lower(item.name)
        importance == IF item.importance = "absent" THEN "Medium"
                      ELSE item.importance
        proficiency_desired == IF item.min_proficiency = Absent THEN 2
                               ELSE item.min_proficiency
        market_demand == MarketGet(market_data, skill_name_lower,
                                   "demand_score", 60)
    IN  IF skill_name_lower \notin Elems(user_skills_lower)
        THEN [list |-> "skills_to_improve", name |-> item.name,
              priority |-> IF importance = "Medium" THEN "Medium" ELSE "Low",
              marketDemand |-> market_demand,
              salaryImpact |-> SalaryOf(market_data, skill_name_lower,
                                        market_demand, proficiency_desired),
              learningTime |-> MarketGet(market_data, skill_name_lower,
                                         "learning_hours", 150),
              proficiency |-> proficiency_desired,
              gap |-> 70, matchPercentage |-> Absent]
        ELSE [list |-> "matching_skills", name |-> item.name,
              priority |-> "", marketDemand |-> Absent,
              salaryImpact |-> Absent, learningTime |-> Absent,
              proficiency |-> Absent, gap |-> Absent,
              matchPercentage |-> 85]

InList(entries, list) == SelectSeq(entries, LAMBDA e : e.list = list)

\* A mutant: the percentage is rounded up instead of truncated.
MatchScore_ceiling(matched_required, total_required) ==
    IF total_required > 0
    THEN (matched_required * 100 + total_required - 1) \div total_required
    ELSE 50

\* A mutant: the score is never below one half.
MatchScore_half(matched_required, total_required) ==
    IF total_required > 0
    THEN Max(50, (matched_required * 100) \div total_required)
    ELSE 50

(* gap_analysis.py:166-173.  int((matched / total) * 100): the float       *)
(* product truncated, which is floor(100*matched/total) for every          *)
(* total < 50 (for 29 of 50 the float product is 57.99999999999999).       *)
MatchScore(matched_required, total_required) ==
    IF total_required > 0
    THEN (matched_required * 100) \div total_required
    ELSE 50

\* A mutant: an owned optional skill is dropped instead of reported.
OptionalEntries_dropowned(optional_skills, user_skills_lower, market_data) ==
    SelectSeq([i \in 1 .. Len(optional_skills) |->
                  OptionalEntry(optional_skills[i], user_skills_lower,
                                market_data)],
              LAMBDA e : e.list # "matching_skills")

\* gap_analysis.py:129: the loop over the optional skills.
OptionalEntries(optional_skills, user_skills_lower, market_data) ==
    [i \in 1 .. Len(optional_skills) |->
        OptionalEntry(optional_skills[i], user_skills_lower, market_data)]

calculate_gap_analysis(user_skills, role_requirements, selected_role, market_data) ==
    LET user_skills_lower == LowerAll(user_skills)
        role_index == FindRole(role_requirements, selected_role)
        role_data == role_requirements[role_index]
    IN  IF role_index = 0
        THEN [critical_gaps |-> <<>>, skills_to_improve |-> <<>>,
              matching_skills |-> <<>>, overall_match_score |-> 0]
        ELSE
        LET req == [i \in 1 .. Len(role_data.required_skills) |->
                       RequiredEntry(role_data.required_skills[i],
                                     user_skills_lower, market_data)]
            opt == OptionalEntries(role_data.optional_skills,
                                   user_skills_lower, market_data)
            total_required == Len(role_data.required_skills)
            matched_required ==
                Cardinality({i \in 1 .. total_required :
                    Lower(role_data.required_skills[i].name)
                        \in Elems(user_skills_lower)})
        IN  [critical_gaps |-> InList(req, "critical_gaps"),
             skills_to_improve |-> InList(opt, "skills_to_improve"),
             matching_skills |-> InList(req, "matching_skills")
                                 \o InList(opt, "matching_skills"),
             overall_match_score |->
                 MatchScore(matched_required, total_required)]

-----------------------------------------------------------------------------
(* Inputs of a gap analysis.  The catalogue holds two roles; the second    *)
(* one's required skills are any MaxRequired or fewer of RequiredNames     *)
(* ("Python" and "python" are two keys with one lower-case form), its      *)
(* optional skills any of OptionalNames (two of them can also be           *)
(* required).  The user owns any of UserNames, written in another case.    *)
MaxRequired == 4

RequiredNames == <<"Python", "python", "SQL", "Docker", "Git">>
OptionalNames == <<"Docker", "Rust", "Git">>
UserNames     == <<"PYTHON", "sql", "Docker", "Rust">>

SkillItem(name) ==
    CASE name = "Python" -> [name |-> name, importance |-> "Critical", min_proficiency |-> 4]
      [] name = "python" -> [name |-> name, importance |-> "absent", min_proficiency |-> Absent]
      [] name = "SQL"    -> [name |-> name, importance |-> "High", min_proficiency |-> 3]
      [] name = "Docker" -> [name |-> name, importance |-> "Medium", min_proficiency |-> 2]
      [] name = "Git"    -> [name |-> name, importance |-> "Low", min_proficiency |-> Absent]
      [] OTHER           -> [name |-> name, importance |-> "absent", min_proficiency |-> 5]

Pick(base, chosen) == SelectSeq(base, LAMBDA x : x \in chosen)
Items(names) == [i \in 1 .. Len(names) |-> SkillItem(names[i])]

Catalogue(required, optional) ==
    << [role_name |-> "Data Analyst",
        required_skills |-> Items(<<"SQL">>), optional_skills |-> <<>>],
       [role_name |-> "Backend Developer",
        required_skills |-> Items(required),
        optional_skills |-> Items(optional)] >>

MarketEntry(demand, salary, hours) ==
    [demand_score |-> demand, salary_impact |-> salary, learning_hours |-> hours]

MarketTables ==
    { [x \in {} |-> MarketEntry(0, 0, 0)],
      [x \in {"python", "sql", "rust"} |->
          CASE x = "python" -> MarketEntry(90, 0, Absent)
            [] x = "sql"    -> MarketEntry(20, 25, 120)
            [] OTHER        -> MarketEntry(95, Absent, 300)] }

NoGapResult == [critical_gaps |-> <<>>, skills_to_improve |-> <<>>,
                matching_skills |-> <<>>, overall_match_score |-> Absent]

GapInit ==
    /\ \E owned \in SUBSET Elems(UserNames) : g_user = Pick(UserNames, owned)
    /\ \E req \in SUBSET Elems(RequiredNames), opt \in SUBSET Elems(OptionalNames) :
          /\ Cardinality(req) <= MaxRequired
          /\ g_roles = Catalogue(Pick(RequiredNames, req), Pick(OptionalNames, opt))
    /\ g_selected \in {"backend developer", "DATA ANALYST", "Astronaut"}
    /\ g_market \in MarketTables
    /\ g_result = NoGapResult

GapIdle ==
    /\ g_user = <<>>
    /\ g_roles = <<>>
    /\ g_selected = ""
    /\ g_market = [x \in {} |-> MarketEntry(0, 0, 0)]
    /\ g_result = NoGapResult

CalculateGapAnalysis ==
    /\ g_result = NoGapResult
    /\ g_result' = calculate_gap_analysis(g_user, g_roles, g_selected, g_market)
    /\ UNCHANGED <<g_user, g_roles, g_selected, g_market>>

-----------------------------------------------------------------------------
(* A call of calculate_salary_impact.  The demand score is any integer up  *)
(* to MaxDemand (below 30 and above 100 included), the proficiencies are   *)
(* levels 0 .. MaxProficiency, as the function documents them.             *)
MaxDemand == 120
MaxProficiency == 5

SalaryInit ==
    /\ s_demand \in 0 .. MaxDemand
    /\ s_current \in 0 .. MaxProficiency
    /\ s_target \in 0 .. MaxProficiency
    /\ s_impact = Unset

SalaryIdle ==
    /\ s_demand = 0
    /\ s_current = 0
    /\ s_target = 0
    /\ s_impact = Unset

CalculateSalaryImpact ==
    /\ s_impact = Unset
    /\ s_impact' = calculate_salary_impact(s_demand, s_current, s_target)
    /\ UNCHANGED <<s_demand, s_current, s_target>>

-----------------------------------------------------------------------------
(* GET /gap-analysis/{candidate_id}, gap_analysis.py:245-337.  The store   *)
(* holds, for each candidate, the names of the skills the candidate owns   *)
(* (candidate_skills joined with skills), and the skill_market_data rows.  *)
(* The output fields category, experience_level and analysis_timestamp are *)
(* left out.                                                               *)

\* gap_analysis.py:283: the list bound to user_skills.
DefaultUserSkills ==
    <<"Python", "SQL", "REST APIs", "Docker", "Git", "JavaScript">>

\* gap_analysis.py:217-242.  A later row replaces an earlier one with the
\* same lower-case name; rows without a name are skipped.
build_market_data_dict(market_data_list) ==
    LET named == {i \in 1 .. Len(market_data_list) :
                     market_data_list[i].skill_name # ""}
        keys == {Lower(market_data_list[i].skill_name) : i \in named}
        last(k) == CHOOSE i \in named :
                      /\ Lower(market_data_list[i].skill_name) = k
                      /\ \A j \in named :
                            Lower(market_data_list[j].skill_name) = k => j <= i
    IN  [k \in keys |->
           LET demand_score == market_data_list[last(k)].demand_score
           IN  MarketEntry(demand_score,
                           calculate_salary_impact(demand_score, 0, 3),
                           Clamp(50, 300, demand_score * 2))]

GapResponse(status, candidate_id, role, analysis) ==
    [status |-> status, candidate_id |-> candidate_id, role |-> role,
     critical_gaps |-> analysis.critical_gaps,
     skills_to_improve |-> analysis.skills_to_improve,
     matching_skills |-> analysis.matching_skills,
     overall_match_score |-> analysis.overall_match_score]

(* gap_analysis.py:245-337.  `owned` is the store's record of the skills   *)
(* of each candidate; `fault` is a store error, answered with 500.         *)
get_gap_analysis(owned, candidate_id, role, role_requirements, market_data_rows, fault) ==
    IF fault THEN GapResponse(500, candidate_id, role, NoGapResult)
    ELSE IF candidate_id \notin DOMAIN owned
    THEN GapResponse(404, candidate_id, role, NoGapResult)
    ELSE LET user_skills == DefaultUserSkills
             target == IF role = "" THEN "Software Developer" ELSE role
             market_data_dict == build_market_data_dict(market_data_rows)
         IN  GapResponse(200, candidate_id, target,
                         calculate_gap_analysis(user_skills, role_requirements,
                                                target, market_data_dict))

ApiRequests == {1, 2}
ApiRoles == {"backend developer", "Astronaut", ""}
OwnedNames == <<"PYTHON", "sql", "Docker", "Rust">>

\* data/role_requirements.json as load_role_requirements returns it
RoleCatalogue ==
    Catalogue(<<"Python", "SQL", "Docker">>, <<"Rust", "Git">>)
    \o << [role_name |-> "Software Developer",
           required_skills |-> Items(<<"Python", "Git">>),
           optional_skills |-> Items(<<"Docker">>)] >>

MarketRows ==
    { <<>>,
      << [skill_name |-> "Python", demand_score |-> 90],
         [skill_name |-> "", demand_score |-> 10],
         [skill_name |-> "SQL", demand_score |-> 20],
         [skill_name |-> "python", demand_score |-> 160] >> }

IdleGapRequest ==
    [pc |-> "idle", response |-> GapResponse(0, 0, "", NoGapResult)]

ApiInit ==
    /\ \E o1 \in SUBSET Elems(OwnedNames), o2 \in SUBSET Elems(OwnedNames) :
          api_owned = <<Pick(OwnedNames, o1), Pick(OwnedNames, o2)>>
    /\ api_roles = RoleCatalogue
    /\ api_market \in MarketRows
    /\ api_requests = [r \in ApiRequests |-> IdleGapRequest]

ApiIdle ==
    /\ api_owned = <<>>
    /\ api_roles = <<>>
    /\ api_market = <<>>
    /\ api_requests = [r \in ApiRequests |-> IdleGapRequest]

GetGapAnalysis(r) ==
    /\ api_requests[r].pc = "idle"
    /\ \E candidate_id \in 1 .. Len(api_owned) + 1, role \in ApiRoles,
          fault \in BOOLEAN :
          api_requests' = [api_requests EXCEPT ![r] =
              [pc |-> "done",
               response |-> get_gap_analysis(api_owned, candidate_id, role,
                                             api_roles, api_market, fault)]]
    /\ UNCHANGED <<api_owned, api_roles, api_market>>

-----------------------------------------------------------------------------
(* Summary pipeline, career_advisor.py:2496-3212.                          *)
(*                                                                         *)
(* Text.  A Python str is a sequence of pieces.  A piece is one character  *)
(* or a run of characters that holds no quote, backslash, bracket, brace,  *)
(* comma, colon or non-ASCII character and no letter of a keyword match;   *)
(* the text is the concatenation of its pieces.  Every text that takes     *)
(* part in keyword matching is written one character per piece.  The piece *)
(* "<U+20B9>" is the rupee sign.                                           *)
(*                                                                         *)
(* Objects.  A Python value that may occur in a summary dictionary is a    *)
(* record [t, s, items]: a str (s: its text), a list (items: its           *)
(* elements), a dict (items: its [k, val] pairs in insertion order, k a    *)
(* text), a number (s: its literal) or None.                               *)

OFFENSIVE_KEYWORDS ==
    << <<"e", "x", "p", "l", "i", "c", "i", "t">>,
       <<"v", "u", "l", "g", "a", "r">>,
       <<"h", "a", "t", "e">>,
       <<"r", "a", "c", "i", "s", "t">>,
       <<"s", "e", "x", "i", "s", "t">>,
       <<"d", "i", "s", "c", "r", "i", "m", "i", "n", "a", "t", "o", "r", "y">>,
       <<"h", "a", "r", "a", "s", "s", "m", "e", "n", "t">>,
       <<"a", "b", "u", "s", "e">>,
       <<"i", "l", "l", "e", "g", "a", "l">>,
       <<"h", "a", "r", "m", "f", "u", "l">>,
       <<"d", "a", "n", "g", "e", "r", "o", "u", "s">> >>

CONTENT_FILTER_ENABLED == TRUE
CACHE_ENABLED == TRUE
MAX_RETRIES == 3
RETRY_DELAY_BASE == 1
SUMMARY_CACHE_HOURS == 24

Str(s)      == [t |-> "str",  s |-> s,    items |-> <<>>]
List(items) == [t |-> "list", s |-> <<>>, items |-> items]
Dict(items) == [t |-> "dict", s |-> <<>>, items |-> items]
Number(lit) == [t |-> "num",  s |-> <<lit>>, items |-> <<>>]
PyNone      == [t |-> "none", s |-> <<>>, items |-> <<>>]

\* A dictionary key written as a text of one piece.
Key(name) == <<name>>

\* k in d
DictHas(d, k) == \E i \in 1 .. Len(d.items) : d.items[i].k = k

\* d.get(k): None when the key is absent
DictGet(d, k) ==
    IF DictHas(d, k)
    THEN d.items[CHOOSE i \in 1 .. Len(d.items) : d.items[i].k = k].val
    ELSE PyNone

\* d[k] = v: an existing key keeps its position, a new key goes last
DictSet(d, k, v) ==
    IF DictHas(d, k)
    THEN Dict([i \in 1 .. Len(d.items) |->
                 IF d.items[i].k = k THEN [k |-> k, val |-> v] ELSE d.items[i]])
    ELSE Dict(Append(d.items, [k |-> k, val |-> v]))

\* sep.join(texts)
RECURSIVE JoinTexts(_, _)
JoinTexts(sep, texts) ==
    IF texts = <<>> THEN <<>>
    ELSE IF Len(texts) = 1 THEN texts[1]
    ELSE texts[1] \o sep \o JoinTexts(sep, Tail(texts))

\* str.lower(), piece by piece
LowerPiece(c) ==
    CASE c = "A" -> "a" [] c = "B" -> "b" [] c = "C" -> "c" [] c = "D" -> "d"
      [] c = "E" -> "e" [] c = "F" -> "f" [] c = "G" -> "g" [] c = "H" -> "h"
      [] c = "I" -> "i" [] c = "J" -> "j" [] c = "K" -> "k" [] c = "L" -> "l"
      [] c = "M" -> "m" [] c = "N" -> "n" [] c = "O" -> "o" [] c = "P" -> "p"
      [] c = "Q" -> "q" [] c = "R" -> "r" [] c = "S" -> "s" [] c = "T" -> "t"
      [] c = "U" -> "u" [] c = "V" -> "v" [] c = "W" -> "w" [] c = "X" -> "x"
      [] c = "Y" -> "y" [] c = "Z" -> "z" [] OTHER -> c

LowerText(text) == [i \in 1 .. Len(text) |-> LowerPiece(text[i])]

\* str.replace(old, new) for a one-character old
ReplacePiece(text, old, new) ==
    [i \in 1 .. Len(text) |-> IF text[i] = old THEN new ELSE text[i]]

\* kw in text
Contains(text, kw) ==
    \E i \in 1 .. Len(text) - Len(kw) + 1 : SubSeq(text, i, i + Len(kw) - 1) = kw

HasPiece(text, c) == \E i \in 1 .. Len(text) : text[i] = c

(* repr() of a value, as str() of a list prints its elements.  A str is    *)
(* quoted with ' unless it holds a ' and no ".                              *)
RECURSIVE Repr(_)
Repr(v) ==
    CASE v.t = "str" ->
           LET q == IF HasPiece(v.s, "'") /\ ~HasPiece(v.s, "\"")
                    THEN "\"" ELSE "'"
           IN  <<q>> \o v.s \o <<q>>
      [] v.t = "list" ->
           <<"[">> \o JoinTexts(<<",", " ">>,
                        [i \in 1 .. Len(v.items) |-> Repr(v.items[i])])
                   \o <<"]">>
      [] v.t = "dict" ->
           <<"{">> \o JoinTexts(<<",", " ">>,
                        [i \in 1 .. Len(v.items) |->
                           Repr(Str(v.items[i].k)) \o <<":", " ">>
                           \o Repr(v.items[i].val)])
                   \o <<"}">>
      [] v.t = "num" -> v.s
      [] OTHER -> <<"N", "o", "n", "e">>

\* str(v)
PyStr(v) == IF v.t = "str" THEN v.s ELSE Repr(v)

(* career_advisor.py:3183-3212.  Only the values that are a str or a list  *)
(* are joined into the text that is searched.                              *)
_contains_offensive_content(summary_data) ==
    IF ~CONTENT_FILTER_ENABLED THEN FALSE
    ELSE LET checked == SelectSeq(summary_data.items,
                           LAMBDA item : item.val.t \in {"str", "list"})
             joined == JoinTexts(<<" ">>,
                          [i \in 1 .. Len(checked) |->
                             LowerText(PyStr(checked[i].val))])
             text_to_check ==
                 ReplacePiece(ReplacePiece(ReplacePiece(joined,
                     "[", " "), "]", " "), ",", " ")
         IN  \E n \in 1 .. Len(OFFENSIVE_KEYWORDS) :
                 Contains(text_to_check, LowerText(OFFENSIVE_KEYWORDS[n]))

-----------------------------------------------------------------------------
(* json.dumps / json.loads on texts.  dumps writes ", " and ": " between   *)
(* items, quotes every str and escapes the quote, the backslash and every  *)
(* non-ASCII character (ensure_ascii); loads undoes the escapes.           *)

Escape(c) ==
    CASE c = "\"" -> "\\\""
      [] c = "\\" -> "\\\\"
      [] c = "<U+20B9>" -> "\\u20b9"
      [] OTHER -> c

\* A mutant: the escapes are left in the text.
Unescape_kept(c) == c

Unescape(c) ==
    CASE c = "\\\"" -> "\""
      [] c = "\\\\" -> "\\"
      [] c = "\\u20b9" -> "<U+20B9>"
      [] OTHER -> c

JsonString(text) ==
    <<"\"">> \o [i \in 1 .. Len(text) |-> Escape(text[i])] \o <<"\"">>

RECURSIVE JsonDumps(_)
JsonDumps(v) ==
    CASE v.t = "str" -> JsonString(v.s)
      [] v.t = "list" ->
           <<"[">> \o JoinTexts(<<",", " ">>,
                        [i \in 1 .. Len(v.items) |-> JsonDumps(v.items[i])])
                   \o <<"]">>
      [] v.t = "dict" ->
           <<"{">> \o JoinTexts(<<",", " ">>,
                        [i \in 1 .. Len(v.items) |->
                           JsonString(v.items[i].k) \o <<":", " ">>
                           \o JsonDumps(v.items[i].val)])
                   \o <<"}">>
      [] v.t = "num" -> v.s
      [] OTHER -> <<"null">>

NumberLiterals == {"0", "6", "7", "12"}

ParseFail == [ok |-> FALSE, val |-> PyNone, next |-> 0]
Parsed(v, next) == [ok |-> TRUE, val |-> v, next |-> next]

RECURSIVE SkipSpace(_, _)
SkipSpace(toks, i) ==
    IF i <= Len(toks) /\ toks[i] = " " THEN SkipSpace(toks, i + 1) ELSE i

\* the text of a string, from the piece after its opening quote
RECURSIVE ParseString(_, _, _)
ParseString(toks, i, acc) ==
    IF i > Len(toks) THEN ParseFail
    ELSE IF toks[i] = "\"" THEN Parsed(Str(acc), i + 1)
    ELSE ParseString(toks, i + 1, Append(acc, Unescape(toks[i])))

RECURSIVE ParseValue(_, _)
RECURSIVE ParseElements(_, _, _)
RECURSIVE ParseMembers(_, _, _)

ParseValue(toks, i0) ==
    LET i == SkipSpace(toks, i0)
    IN  IF i > Len(toks) THEN ParseFail
        ELSE CASE toks[i] = "\"" -> ParseString(toks, i + 1, <<>>)
               [] toks[i] = "[" ->
                    LET j == SkipSpace(toks, i + 1)
                    IN  IF j <= Len(toks) /\ toks[j] = "]"
                        THEN Parsed(List(<<>>), j + 1)
                        ELSE ParseElements(toks, i + 1, <<>>)
               [] toks[i] = "{" ->
                    LET j == SkipSpace(toks, i + 1)
                    IN  IF j <= Len(toks) /\ toks[j] = "}"
                        THEN Parsed(Dict(<<>>), j + 1)
                        ELSE ParseMembers(toks, i + 1, Dict(<<>>))
               [] toks[i] = "null" -> Parsed(PyNone, i + 1)
               [] toks[i] \in NumberLiterals -> Parsed(Number(toks[i]), i + 1)
               [] OTHER -> ParseFail

ParseElements(toks, i, acc) ==
    LET r == ParseValue(toks, i)
    IN  IF ~r.ok THEN ParseFail
        ELSE LET j == SkipSpace(toks, r.next)
             IN  IF j > Len(toks) THEN ParseFail
                 ELSE IF toks[j] = ","
                 THEN ParseElements(toks, j + 1, Append(acc, r.val))
                 ELSE IF toks[j] = "]"
                 THEN Parsed(List(Append(acc, r.val)), j + 1)
                 ELSE ParseFail

ParseMembers(toks, i, acc) ==
    LET k == SkipSpace(toks, i)
    IN  IF k > Len(toks) \/ toks[k] # "\"" THEN ParseFail
        ELSE LET key == ParseString(toks, k + 1, <<>>)
                 c   == SkipSpace(toks, key.next)
             IN  IF ~key.ok \/ c > Len(toks) \/ toks[c] # ":" THEN ParseFail
                 ELSE LET r == ParseValue(toks, c + 1)
                          j == SkipSpace(toks, r.next)
                      IN  IF ~r.ok \/ j > Len(toks) THEN ParseFail
                          ELSE IF toks[j] = ","
                          THEN ParseMembers(toks, j + 1,
                                            DictSet(acc, key.val.s, r.val))
                          ELSE IF toks[j] = "}"
                          THEN Parsed(DictSet(acc, key.val.s, r.val), j + 1)
                          ELSE ParseFail

\* json.loads: ok is FALSE where it raises JSONDecodeError
JsonLoads(text) ==
    LET r == ParseValue(text, 1)
    IN  IF r.ok /\ SkipSpace(text, r.next) > Len(text) THEN r ELSE ParseFail

-----------------------------------------------------------------------------
(* Objects handed to the summary functions.  An object is a record of the  *)
(* attributes it has; reading an attribute it lacks raises AttributeError. *)
(* A row of candidate_skills (models/skill.py:31-62) has candidate_id,     *)
(* skill_id and proficiency among its columns, and no name, category or    *)
(* market_demand.                                                          *)

HasAttr(obj, attr) == attr \in DOMAIN obj

Returned(d) == [kind |-> "return", data |-> d]
Raised      == [kind |-> "raise",  data |-> Dict(<<>>)]
NoOutcome   == [kind |-> "none",   data |-> Dict(<<>>)]

\* The raw proficiency stored in row i of a candidate.
RowProficiency(i) == IF i = 1 THEN NoneVal ELSE Num(150 * i)

\* The rows db.query(CandidateSkill).filter(candidate_id == c).all() gives
\* for a candidate with k rows.
OrmRows(c, k) ==
    [i \in 1 .. k |->
       [candidate_id |-> c, skill_id |-> i, proficiency |-> RowProficiency(i)]]

\* k objects that do carry a name, as the summary functions expect.
NamedSkills(k) ==
    [i \in 1 .. k |->
       [name |-> <<"Skill ", ToString(i)>>, proficiency |-> RowProficiency(i)]]

(* career_advisor.py:3003-3072.  The list comprehension reads s.category   *)
(* of every row; the AttributeError is caught at line 3066 and the         *)
(* defaults are returned.  Scores are computed with exact arithmetic.      *)
_get_health_metrics_for_summary(skills) ==
    LET defaults == [overall_score |-> 50, skills_relevance |-> 50,
                     market_alignment |-> 50]
    IN  IF skills = <<>> THEN defaults
        ELSE IF \E i \in 1 .. Len(skills) : ~HasAttr(skills[i], "category")
        THEN defaults
        ELSE LET normalized_skills ==
                     [i \in 1 .. Len(skills) |->
                        [proficiency |->
                             _normalize_proficiency(skills[i].proficiency),
                         market_demand |->
                             _normalize_market_demand(
                                 IF HasAttr(skills[i], "market_demand")
                                 THEN skills[i].market_demand ELSE NoneVal)]]
                 sr == calculate_skills_relevance(normalized_skills, FALSE)
                 ma == calculate_market_alignment(normalized_skills, FALSE)
                 lt == calculate_learning_trajectory(normalized_skills, FALSE)
                 id == calculate_industry_demand(normalized_skills, FALSE)
             IN  [overall_score |-> Min(100, Max(0, OverallScore(sr, ma, lt, id))),
                  skills_relevance |-> Min(100, Max(0, sr)),
                  market_alignment |-> Min(100, Max(0, ma))]

(* career_advisor.py:2788-2872.  Only whether the construction raises is   *)
(* kept: it reads s.name of each of the first 15 skills.                   *)
_build_summary_prompt(skills) ==
    IF \E i \in 1 .. Min(15, Len(skills)) : ~HasAttr(skills[i], "name")
    THEN "raise" ELSE "prompt"

\* sorted(skills, key=normalized proficiency, reverse=True): stable, so
\* skills of equal proficiency keep their order.
RECURSIVE InsertByProficiency(_, _)
InsertByProficiency(x, s) ==
    IF s = <<>> THEN <<x>>
    ELSE IF _normalize_proficiency(Head(s).proficiency)
              > _normalize_proficiency(x.proficiency)
    THEN <<Head(s)>> \o InsertByProficiency(x, Tail(s))
    ELSE <<x>> \o s

RECURSIVE SortedByProficiency(_)
SortedByProficiency(s) ==
    IF s = <<>> THEN <<>>
    ELSE InsertByProficiency(Head(s), SortedByProficiency(Tail(s)))

TextList(texts) == List([i \in 1 .. Len(texts) |-> Str(texts[i])])

(* career_advisor.py:2875-3000.  Raises AttributeError at line 2911 when a *)
(* skill among the top three has no name.                                  *)
_generate_template_summary(skills, health_metrics) ==
    LET overall_score == health_metrics.overall_score
        sorted_skills == SortedByProficiency(skills)
        top_skills == SubSeq(sorted_skills, 1, Min(3, Len(sorted_skills)))
        skill_names == IF top_skills = <<>> THEN << <<"core skills">> >>
                       ELSE [i \in 1 .. Len(top_skills) |-> top_skills[i].name]
        joined == JoinTexts(<<",", " ">>, skill_names)
        count == <<ToString(Len(skills))>>
        result(summary, opportunities, action_items, timeline, salary_impact) ==
            Returned(Dict(<<
                [k |-> Key("summary"), val |-> Str(summary)],
                [k |-> Key("key_strengths"), val |-> TextList(skill_names)],
                [k |-> Key("opportunities"), val |-> TextList(opportunities)],
                [k |-> Key("action_items"), val |-> TextList(action_items)],
                [k |-> Key("timeline_to_goal"), val |-> Str(timeline)],
                [k |-> Key("salary_impact"), val |-> Str(salary_impact)],
                [k |-> Key("source"), val |-> Str(<<"template">>)] >>))
    IN  IF \E i \in 1 .. Len(top_skills) : ~HasAttr(top_skills[i], "name")
        THEN Raised
        ELSE IF overall_score >= 80 THEN
            result(<<"You're a senior-level engineer with strong expertise in ">>
                   \o joined \o <<". Your ">> \o count
                   \o <<"-skill portfolio and high proficiency levels position you well for staff/principal roles. Focus on system design">>
                   \o <<",">>
                   \o <<" architectural thinking">> \o <<",">>
                   \o <<" and technical leadership. Consider mentoring">>
                   \o <<",">> \o <<" open source contributions">> \o <<",">>
                   \o <<" or conference speaking to enhance your profile.">>,
                   << <<"Architect complex distributed systems">>,
                      <<"Lead technical teams and set engineering standards">>,
                      <<"Become a technical authority in your domain">> >>,
                   << <<"Master system design patterns and trade-offs">>,
                      <<"Lead a high-impact technical initiative">>,
                      <<"Mentor 2-3 junior engineers">>,
                      <<"Contribute to open source or speak at conferences">>,
                      <<"Build a personal brand in your specialty">> >>,
                   <<"3-6 months">>,
                   <<"<U+20B9>", "4-7L increase potential">>)
        ELSE IF overall_score >= 65 THEN
            result(<<"You're demonstrating solid growth with competency in ">>
                   \o joined \o <<". Your ">> \o count
                   \o <<"-skill portfolio positions you for mid-to-senior level opportunities. Deepen your expertise in high-demand areas and work on substantial projects. Learn system design and cloud architecture to progress toward senior roles.">>,
                   << <<"Progress to senior engineer roles">>,
                      <<"Specialize in high-demand technologies">>,
                      <<"Lead technical projects">> >>,
                   << <<"Complete a system design course (DesignGuru", ",",
                        " SystemDesign.io)">>,
                      <<"Lead or co-lead a technical project">>,
                      <<"Contribute meaningfully to one open source project">>,
                      <<"Practice technical interviews monthly">>,
                      <<"Learn cloud architecture (AWS", ",", " Azure", ",",
                        " GCP)">> >>,
                   <<"6-12 months">>,
                   <<"<U+20B9>", "3-5L increase potential">>)
        ELSE
            result(<<"You're building a solid foundation with skills like ">>
                   \o joined
                   \o <<". Prioritize practical experience and deep mastery of a few technologies over breadth. Consistent learning">>
                   \o <<",">> \o <<" project work">> \o <<",">>
                   \o <<" and code review participation will accelerate your growth. Focus on becoming a strong generalist before specializing.">>,
                   << <<"Build strong fundamentals in core technologies">>,
                      <<"Gain real-world project experience">>,
                      <<"Contribute to team projects and learn from seniors">> >>,
                   << <<"Master 2-3 core technologies deeply">>,
                      <<"Build 2-3 substantial portfolio projects">>,
                      <<"Read and contribute to code reviews">>,
                      <<"Complete structured learning programs (LLD", ",",
                        " HLD basics)">>,
                      <<"Seek mentorship from senior engineers">> >>,
                   <<"12-18 months">>,
                   <<"<U+20B9>", "2-4L increase potential">>)

(* Building CareerSummaryResponse, career_advisor.py:202-210: every field  *)
(* is required, the str fields take a str, the list fields a list of str;  *)
(* other keys are ignored.  ValidationError otherwise.                     *)
StrFields == <<"summary", "timeline_to_goal", "salary_impact",
               "generated_at", "source">>
ListFields == <<"key_strengths", "opportunities", "action_items">>
ResponseFields == <<"summary", "key_strengths", "opportunities",
                    "action_items", "timeline_to_goal", "salary_impact",
                    "generated_at", "source">>

IsStrList(v) == /\ v.t = "list"
                /\ \A i \in 1 .. Len(v.items) : v.items[i].t = "str"

CareerSummaryResponse(d) ==
    IF /\ d.t = "dict"
       /\ \A i \in 1 .. Len(StrFields) :
              DictGet(d, Key(StrFields[i])).t = "str"
       /\ \A i \in 1 .. Len(ListFields) :
              IsStrList(DictGet(d, Key(ListFields[i])))
    THEN Returned(Dict([i \in 1 .. Len(ResponseFields) |->
                          [k |-> Key(ResponseFields[i]),
                           val |-> DictGet(d, Key(ResponseFields[i]))]]))
    ELSE Raised

\* Python truthiness of an object
PyTruthy(v) ==
    CASE v.t = "none" -> FALSE
      [] v.t = "str" -> v.s # <<>>
      [] v.t = "num" -> v.s # <<"0">>
      [] OTHER -> v.items # <<>>

-----------------------------------------------------------------------------
(* The career_summary_cache table (models/career_summary_cache.py:39-81)   *)
(* is a set of rows [cache_key, summary_data, expires_at]; cache_key is    *)
(* unique.  Time is counted in hours.                                      *)

\* f"{candidate_id}_{context}"
CacheKey(candidate_id, context) == <<ToString(candidate_id), "_", context>>

\* datetime.utcnow().isoformat(): the instant, written out
IsoFormat(t) == <<"T", ToString(t)>>

NoRow == [cache_key |-> <<>>, summary_data |-> <<>>, expires_at |-> 0]

\* the row stored under a key, NoRow if there is none
RowOf(table, cache_key) ==
    IF \E e \in table : e.cache_key = cache_key
    THEN CHOOSE e \in table : e.cache_key = cache_key
    ELSE NoRow

\* A mutant: an entry is still served at its expires_at.
_get_cached_summary_inclusive(table, cache_key, t, fault) ==
    LET cached == RowOf({e \in table : e.expires_at >= t}, cache_key)
    IN  IF fault \/ cached = NoRow THEN PyNone
        ELSE LET loaded == JsonLoads(cached.summary_data)
             IN  IF loaded.ok THEN loaded.val ELSE PyNone

(* career_advisor.py:3075-3122.  `fault` is a store error on the query;    *)
(* it is caught at line 3120, as is a payload json.loads rejects.          *)
_get_cached_summary(table, cache_key, t, fault) ==
    LET cached == RowOf({e \in table : e.expires_at > t}, cache_key)
    IN  IF fault \/ cached = NoRow THEN PyNone
        ELSE LET loaded == JsonLoads(cached.summary_data)
             IN  IF loaded.ok THEN loaded.val ELSE PyNone

\* A mutant: a failed write has already deleted the old entry.
_cache_summary_partial(table, cache_key, summary_data, t, fault) ==
    IF fault THEN {e \in table : e.cache_key # cache_key}
    ELSE {e \in table : e.cache_key # cache_key}
         \cup {[cache_key |-> cache_key,
                summary_data |-> JsonDumps(summary_data),
                expires_at |-> t + SUMMARY_CACHE_HOURS]}

(* career_advisor.py:3125-3180.  `fault` is a store error; it is caught at *)
(* line 3175 and the session is rolled back.                               *)
_cache_summary(table, cache_key, summary_data, t, fault) ==
    IF fault THEN table
    ELSE {e \in table : e.cache_key # cache_key}
         \cup {[cache_key |-> cache_key,
                summary_data |-> JsonDumps(summary_data),
                expires_at |-> t + SUMMARY_CACHE_HOURS]}

-----------------------------------------------------------------------------
(* generate_career_summary, career_advisor.py:2521-2638, as request tasks  *)
(* over the stored candidates, the cache table and the clock.  A task      *)
(* moves check -> generate -> write -> respond -> done.  Each task keeps    *)
(* what it observed:                                                       *)
(* saw / checked_at / read_fault (the row under its key at its cache       *)
(* lookup, the time, whether the lookup failed), cache_hit, cache_writes  *)
(* (calls of _cache_summary), wrote (the row its cache write stored) and   *)
(* generator_calls.                                                        *)
(* status is the HTTP outcome: 200 with `response`, 404 or 500.            *)

MaxCandidateId == 2     \* request ids 1 .. MaxCandidateId; id 1 is stored
MaxSkillRows == 3       \* the stored candidate has 0 .. MaxSkillRows rows
MaxClock == 24          \* the clock runs from 0 to MaxClock hours

\* The clock is read every half lifetime of a cache entry.
ClockStep == SUMMARY_CACHE_HOURS \div 2

\* Two request tasks, which may overlap.
Requests == {1, 2}

\* Two of the three contexts the request model admits (line 184); the
\* handler treats every context alike.
Contexts == {"career_growth", "job_search"}

IdleRequest ==
    [pc |-> "idle", candidate_id |-> 0, context |-> "", regenerate |-> FALSE,
     summary_data |-> Dict(<<>>), status |-> 0, response |-> Dict(<<>>),
     saw |-> NoRow, checked_at |-> 0, read_fault |-> FALSE,
     cache_hit |-> FALSE, cache_writes |-> 0, wrote |-> NoRow,
     generator_calls |-> 0]

PipeInit ==
    /\ openai_client \in BOOLEAN
    /\ \E k \in 0 .. MaxSkillRows : db_skills = [c \in {1} |-> OrmRows(c, k)]
    /\ cache = {}
    /\ now = 0
    /\ requests = [r \in Requests |-> IdleRequest]

PipeIdle ==
    /\ openai_client = FALSE
    /\ db_skills = [c \in {} |-> <<>>]
    /\ cache = {}
    /\ now = 0
    /\ requests = [r \in Requests |-> IdleRequest]

\* lines 2553-2568: the request arrives and the candidate is looked up
Start(r) ==
    /\ requests[r].pc = "idle"
    /\ \E cid \in 1 .. MaxCandidateId, ctx \in Contexts, regen \in BOOLEAN :
          requests' = [requests EXCEPT ![r] =
              [IdleRequest EXCEPT
                  !.candidate_id = cid, !.context = ctx, !.regenerate = regen,
                  !.pc = IF cid \in DOMAIN db_skills THEN "check" ELSE "done",
                  !.status = IF cid \in DOMAIN db_skills THEN 0 ELSE 404]]
    /\ UNCHANGED <<openai_client, db_skills, cache, now>>

\* line 2571: regenerate bypasses the cache
SkipCache(r) ==
    /\ requests[r].pc = "check"
    /\ requests[r].regenerate \/ ~CACHE_ENABLED
    /\ requests' = [requests EXCEPT ![r].pc = "generate"]
    /\ UNCHANGED <<openai_client, db_skills, cache, now>>

\* lines 2571-2579: cache lookup; a hit is returned at once
CacheCheck(r) ==
    /\ requests[r].pc = "check"
    /\ ~requests[r].regenerate /\ CACHE_ENABLED
    /\ \E fault \in BOOLEAN :
         LET q == requests[r]
             cache_key == CacheKey(q.candidate_id, q.context)
             cached_summary == _get_cached_summary(cache, cache_key, now, fault)
             seen == [q EXCEPT !.saw = RowOf(cache, cache_key),
                               !.checked_at = now, !.read_fault = fault]
             resp == CareerSummaryResponse(cached_summary)
         IN  requests' = [requests EXCEPT ![r] =
                 IF ~PyTruthy(cached_summary)
                 THEN [seen EXCEPT !.pc = "generate"]
                 ELSE IF resp.kind = "return"
                 THEN [seen EXCEPT !.pc = "done", !.status = 200,
                                   !.cache_hit = TRUE, !.response = resp.data]
                 ELSE [seen EXCEPT !.pc = "done", !.status = 500]]
    /\ UNCHANGED <<openai_client, db_skills, cache, now>>

\* lines 2612-2617 after a summary was produced, lines 2633-2638 after an
\* exception
Generated(r, produced) ==
    LET q == requests[r]
        stamped == DictSet(produced.data, Key("generated_at"),
                           Str(IsoFormat(now)))
        summary_data == IF DictHas(stamped, Key("source")) THEN stamped
                        ELSE DictSet(stamped, Key("source"), Str(<<"template">>))
    IN  requests' = [requests EXCEPT ![r] =
            IF produced.kind = "raise"
            THEN [q EXCEPT !.pc = "done", !.status = 500]
            ELSE [q EXCEPT !.pc = "write", !.summary_data = summary_data]]

\* lines 2581-2589 and 2601-2610: no client or fewer than 3 skills
GenerateTemplate(r) ==
    /\ requests[r].pc = "generate"
    /\ LET skills == db_skills[requests[r].candidate_id]
           health_metrics == _get_health_metrics_for_summary(skills)
       IN  /\ ~(openai_client /\ Len(skills) >= 3)
           /\ Generated(r, _generate_template_summary(skills, health_metrics))
    /\ UNCHANGED <<openai_client, db_skills, cache, now>>

(* lines 2581-2600 with 2671-2673 and 2781-2785: the client is configured  *)
(* and there are 3 or more skills; building the prompt raises, which       *)
(* _generate_ai_summary answers with the template.  Rows of                *)
(* candidate_skills have no name, so the prompt is never built and the     *)
(* attempt loop is never entered from a request.                           *)
GenerateAiPromptFault(r) ==
    /\ requests[r].pc = "generate"
    /\ LET skills == db_skills[requests[r].candidate_id]
           health_metrics == _get_health_metrics_for_summary(skills)
       IN  /\ openai_client /\ Len(skills) >= 3
           /\ _build_summary_prompt(skills) = "raise"
           /\ Generated(r, _generate_template_summary(skills, health_metrics))
    /\ UNCHANGED <<openai_client, db_skills, cache, now>>

\* lines 2619-2626: the cache write; a store error is swallowed
CacheWrite(r) ==
    /\ requests[r].pc = "write"
    /\ \E fault \in BOOLEAN :
         LET q == requests[r]
             cache_key == CacheKey(q.candidate_id, q.context)
             table == IF CACHE_ENABLED
                      THEN _cache_summary(cache, cache_key, q.summary_data,
                                          now, fault)
                      ELSE cache
         IN  /\ cache' = table
             /\ requests' = [requests EXCEPT ![r] =
                    [q EXCEPT !.pc = "respond",
                              !.cache_writes = q.cache_writes + 1,
                              !.wrote = IF fault \/ ~CACHE_ENABLED THEN NoRow
                                        ELSE RowOf(table, cache_key)]]
    /\ UNCHANGED <<openai_client, db_skills, now>>

\* line 2629: the response model is built and returned
Respond(r) ==
    /\ requests[r].pc = "respond"
    /\ LET q == requests[r]
           resp == CareerSummaryResponse(q.summary_data)
       IN  requests' = [requests EXCEPT ![r] =
               IF resp.kind = "return"
               THEN [q EXCEPT !.pc = "done", !.status = 200,
                              !.response = resp.data]
               ELSE [q EXCEPT !.pc = "done", !.status = 500]]
    /\ UNCHANGED <<openai_client, db_skills, cache, now>>

\* time passes
Tick ==
    /\ now + ClockStep <= MaxClock
    /\ now' = now + ClockStep
    /\ UNCHANGED <<openai_client, db_skills, cache, requests>>

-----------------------------------------------------------------------------
(* _generate_ai_summary, career_advisor.py:2641-2785, called on its own    *)
(* with a list of 3 or more skill objects, rows of candidate_skills or     *)
(* objects that carry a name.  a_parsed is the last object json.loads      *)
(* produced, a_slept the delays slept so far, a_calls the calls made to    *)
(* the generator, a_outcomes how each call ended, a_content the text of    *)
(* the last message the generator returned.                                *)

required_fields == <<"summary", "key_strengths", "opportunities",
                     "action_items", "timeline_to_goal", "salary_impact">>

CleanObject ==
    Dict(<< [k |-> Key("summary"), val |-> Str(<<"Solid profile.">>)],
            [k |-> Key("key_strengths"), val |-> TextList(<< <<"Python">> >>)],
            [k |-> Key("opportunities"), val |-> TextList(<< <<"Lead">> >>)],
            [k |-> Key("action_items"), val |-> TextList(<< <<"Ship">> >>)],
            [k |-> Key("timeline_to_goal"), val |-> Str(<<"6-12 months">>)],
            [k |-> Key("salary_impact"),
             val |-> Str(<<"<U+20B9>", "3-5L">>)] >>)

\* d without the key k
Without(d, k) == Dict(SelectSeq(d.items, LAMBDA item : item.k # k))

(* What the generator may answer with, as the text of message.content.     *)
GeneratorContents ==
    << JsonDumps(CleanObject),
       <<"Here you go: ">> \o JsonDumps(CleanObject) \o <<" Good luck!">>,
       <<"Sorry", ",", " no advice today.">>,
       <<"{", "oops", "}">>,
       JsonDumps(Without(CleanObject, Key("salary_impact"))),
       JsonDumps(DictSet(CleanObject, Key("summary"),
                         Str(<<"I", " ", "H", "a", "t", "e", " ", "i", "t">>))),
       JsonDumps(DictSet(CleanObject, Key("opportunities"),
                         TextList(<< <<"Lead">>,
                                     <<"A", "B", "U", "S", "E">> >>))),
       JsonDumps(DictSet(CleanObject, Key("action_items"),
                         List(<< Str(<<"Ship">>),
                                 Dict(<< [k |-> Key("step"),
                                          val |-> Str(<<"v", "u", "l", "g",
                                                        "a", "r">>)] >>) >>))),
       JsonDumps(DictSet(CleanObject, Key("timeline_to_goal"),
                         Dict(<< [k |-> Key("note"),
                                  val |-> Str(<<"i", "l", "l", "e", "g", "a",
                                                "l">>)] >>))),
       JsonDumps(DictSet(CleanObject, Key("key_strengths"),
                         Str(<<"Python">>))),
       JsonDumps(List(<<>>)),
       JsonDumps(Number("7")) >>

\* re.search(r'\{.*\}', content, re.DOTALL): first "{" to last "}"
BraceMatch(content) ==
    LET opens == {i \in 1 .. Len(content) : content[i] = "{"}
        first == CHOOSE i \in opens : \A j \in opens : i <= j
        closes == {i \in 1 .. Len(content) : content[i] = "}" /\ i > first}
        last == CHOOSE i \in closes : \A j \in closes : j <= i
    IN  IF opens = {} \/ closes = {} THEN <<>>
        ELSE SubSeq(content, first, last)

\* lines 2709-2718: json.loads, then the embedded object; ok is FALSE where
\* an exception leaves the block
ParseContent(content) ==
    LET whole == JsonLoads(content)
        json_match == BraceMatch(content)
    IN  IF whole.ok THEN whole
        ELSE IF json_match = <<>> THEN ParseFail
        ELSE JsonLoads(json_match)

\* A mutant: an object that lacks a required field is retried like a
\* message that cannot be parsed.
Verdict_retrymissing(summary_data) ==
    LET missing_fields ==
            {i \in 1 .. Len(required_fields) :
               IF summary_data.t = "dict"
               THEN ~DictHas(summary_data, Key(required_fields[i]))
               ELSE ~\E j \in 1 .. Len(summary_data.items) :
                       summary_data.items[j] = Str(Key(required_fields[i]))}
    IN  IF summary_data.t \in {"num", "none"} THEN "raise"
        ELSE IF missing_fields # {} THEN "raise"
        ELSE IF summary_data.t # "dict" THEN "raise"
        ELSE IF CONTENT_FILTER_ENABLED /\ _contains_offensive_content(summary_data)
        THEN "offensive"
        ELSE "ai"

(* lines 2726-2751 on the parsed object: "raise" where the code raises     *)
(* (a number has no `in`, a list no .values()), "missing", "offensive",    *)
(* or "ai".                                                                *)
Verdict(summary_data) ==
    LET missing_fields ==
            {i \in 1 .. Len(required_fields) :
               IF summary_data.t = "dict"
               THEN ~DictHas(summary_data, Key(required_fields[i]))
               ELSE ~\E j \in 1 .. Len(summary_data.items) :
                       summary_data.items[j] = Str(Key(required_fields[i]))}
    IN  IF summary_data.t \in {"num", "none"} THEN "raise"
        ELSE IF missing_fields # {} THEN "missing"
        ELSE IF summary_data.t # "dict" THEN "raise"
        ELSE IF CONTENT_FILTER_ENABLED /\ _contains_offensive_content(summary_data)
        THEN "offensive"
        ELSE "ai"

\* lines 2741-2749: a non-list field becomes a one-element list
Coerced(summary_data) ==
    LET wrap(d, name) ==
            IF DictGet(d, Key(name)).t = "list" THEN d
            ELSE DictSet(d, Key(name), List(<<DictGet(d, Key(name))>>))
    IN  DictSet(wrap(wrap(wrap(summary_data, "key_strengths"),
                          "opportunities"), "action_items"),
                Key("source"), Str(<<"ai">>))

SkillLists == {OrmRows(1, k) : k \in 3 .. MaxSkillRows}
              \cup {NamedSkills(k) : k \in 3 .. MaxSkillRows}

HealthOf(skills) == _get_health_metrics_for_summary(skills)

AiInit ==
    /\ a_skills \in SkillLists
    /\ a_pc = "start"
    /\ a_attempt = 0
    /\ a_retry_delay = RETRY_DELAY_BASE
    /\ a_slept = <<>>
    /\ a_calls = 0
    /\ a_outcomes = <<>>
    /\ a_parsed = PyNone
    /\ a_content = <<>>
    /\ a_result = NoOutcome

AiIdle ==
    /\ a_skills = <<>>
    /\ a_pc = "idle"
    /\ a_attempt = 0
    /\ a_retry_delay = RETRY_DELAY_BASE
    /\ a_slept = <<>>
    /\ a_calls = 0
    /\ a_outcomes = <<>>
    /\ a_parsed = PyNone
    /\ a_content = <<>>
    /\ a_result = NoOutcome

\* The call ends with the template: lines 2729, 2737, 2777 and 2783.
FallBack ==
    /\ a_pc' = "done"
    /\ a_result' = _generate_template_summary(a_skills, HealthOf(a_skills))

\* lines 2755-2758 and 2764-2767: back off if an attempt remains, continue
BackOffAndContinue ==
    /\ IF a_attempt < MAX_RETRIES - 1
       THEN /\ a_slept' = Append(a_slept, a_retry_delay)
            /\ a_retry_delay' = a_retry_delay * 2
       ELSE UNCHANGED <<a_slept, a_retry_delay>>
    /\ a_attempt' = a_attempt + 1
    /\ a_pc' = "attempt"
    /\ UNCHANGED a_result

\* A mutant: the delay is not doubled after an error.
BackOffOrRaise_flat ==
    IF a_attempt < MAX_RETRIES - 1
    THEN /\ a_slept' = Append(a_slept, a_retry_delay)
         /\ a_retry_delay' = a_retry_delay
         /\ a_attempt' = a_attempt + 1
         /\ a_pc' = "attempt"
         /\ UNCHANGED a_result
    ELSE /\ FallBack
         /\ UNCHANGED <<a_slept, a_retry_delay, a_attempt>>

\* lines 2769-2774 and 2781-2785: back off if an attempt remains, else the
\* exception leaves the loop and the handler falls back
BackOffOrRaise ==
    IF a_attempt < MAX_RETRIES - 1
    THEN /\ a_slept' = Append(a_slept, a_retry_delay)
         /\ a_retry_delay' = a_retry_delay * 2
         /\ a_attempt' = a_attempt + 1
         /\ a_pc' = "attempt"
         /\ UNCHANGED a_result
    ELSE /\ FallBack
         /\ UNCHANGED <<a_slept, a_retry_delay, a_attempt>>

\* lines 2671-2676 and 2781-2785
AiBuildPrompt ==
    /\ a_pc = "start"
    /\ IF _build_summary_prompt(a_skills) = "raise"
       THEN FallBack
       ELSE a_pc' = "attempt" /\ UNCHANGED a_result
    /\ UNCHANGED <<a_skills, a_attempt, a_retry_delay, a_slept, a_calls,
                   a_outcomes, a_parsed, a_content>>

\* A mutant: the loop admits one attempt more.
AiCall_offbyone ==
    /\ a_pc = "attempt"
    /\ a_attempt <= MAX_RETRIES
    /\ a_calls' = a_calls + 1
    /\ a_pc' = "await"
    /\ UNCHANGED <<a_skills, a_attempt, a_retry_delay, a_slept, a_outcomes,
                   a_parsed, a_content, a_result>>

\* lines 2678-2702: the next attempt calls the generator
AiCall ==
    /\ a_pc = "attempt"
    /\ a_attempt < MAX_RETRIES
    /\ a_calls' = a_calls + 1
    /\ a_pc' = "await"
    /\ UNCHANGED <<a_skills, a_attempt, a_retry_delay, a_slept, a_outcomes,
                   a_parsed, a_content, a_result>>

\* lines 2776-2779: the loop ran out
AiExhausted ==
    /\ a_pc = "attempt"
    /\ a_attempt = MAX_RETRIES
    /\ FallBack
    /\ UNCHANGED <<a_skills, a_attempt, a_retry_delay, a_slept, a_calls,
                   a_outcomes, a_parsed, a_content>>

\* lines 2753-2758: the call timed out
AiTimeout ==
    /\ a_pc = "await"
    /\ a_outcomes' = Append(a_outcomes, "timeout")
    /\ BackOffAndContinue
    /\ UNCHANGED <<a_skills, a_calls, a_parsed, a_content>>

\* lines 2760-2767: the call was rate limited
AiRateLimit ==
    /\ a_pc = "await"
    /\ a_outcomes' = Append(a_outcomes, "rate_limit")
    /\ BackOffAndContinue
    /\ UNCHANGED <<a_skills, a_calls, a_parsed, a_content>>

\* lines 2760-2774: the call failed otherwise
AiApiError ==
    /\ a_pc = "await"
    /\ a_outcomes' = Append(a_outcomes, "error")
    /\ BackOffOrRaise
    /\ UNCHANGED <<a_skills, a_calls, a_parsed, a_content>>

\* lines 2704-2751: the call returned a message
AiResponse ==
    /\ a_pc = "await"
    /\ a_outcomes' = Append(a_outcomes, "message")
    /\ \E n \in 1 .. Len(GeneratorContents) :
         LET loaded == ParseContent(GeneratorContents[n])
             summary_data == loaded.val
             verdict == IF loaded.ok THEN Verdict(summary_data) ELSE "raise"
         IN  /\ a_parsed' = IF loaded.ok THEN summary_data ELSE a_parsed
             /\ a_content' = GeneratorContents[n]
             /\ CASE verdict = "raise" -> BackOffOrRaise
                  [] verdict = "ai" ->
                       /\ a_pc' = "done"
                       /\ a_result' = Returned(Coerced(summary_data))
                       /\ UNCHANGED <<a_slept, a_retry_delay, a_attempt>>
                  [] OTHER ->
                       /\ FallBack
                       /\ UNCHANGED <<a_slept, a_retry_delay, a_attempt>>
    /\ UNCHANGED <<a_skills, a_calls>>

-----------------------------------------------------------------------------
(* Skill trends, trends.py.  Skill names are texts written one character   *)
(* per piece.  Demand values inside the synthetic pattern are kept in      *)
(* tenths (78.8 is 788), the output field percent_change in tenths of a    *)
(* percent (5.1 is 51).                                                    *)

\* trends.py:334-343
base_demands ==
    << [k |-> <<"r", "e", "a", "c", "t">>, v |-> 87],
       [k |-> <<"t", "y", "p", "e", "s", "c", "r", "i", "p", "t">>, v |-> 82],
       [k |-> <<"p", "y", "t", "h", "o", "n">>, v |-> 85],
       [k |-> <<"j", "a", "v", "a", "s", "c", "r", "i", "p", "t">>, v |-> 90],
       [k |-> <<"n", "o", "d", "e", ".", "j", "s">>, v |-> 80],
       [k |-> <<"n", "o", "d", "e", "j", "s">>, v |-> 80],
       [k |-> <<"d", "o", "c", "k", "e", "r">>, v |-> 75],
       [k |-> <<"k", "u", "b", "e", "r", "n", "e", "t", "e", "s">>, v |-> 78],
       [k |-> <<"a", "w", "s">>, v |-> 88],
       [k |-> <<"j", "a", "v", "a">>, v |-> 82],
       [k |-> <<"p", "o", "s", "t", "g", "r", "e", "s", "q", "l">>, v |-> 79],
       [k |-> <<"m", "o", "n", "g", "o", "d", "b">>, v |-> 76],
       [k |-> <<"r", "e", "d", "i", "s">>, v |-> 73],
       [k |-> <<"g", "r", "a", "p", "h", "q", "l">>, v |-> 70],
       [k |-> <<"v", "u", "e">>, v |-> 68],
       [k |-> <<"a", "n", "g", "u", "l", "a", "r">>, v |-> 65],
       [k |-> <<"r", "u", "s", "t">>, v |-> 72],
       [k |-> <<"g", "o">>, v |-> 75],
       [k |-> <<"t", "e", "r", "r", "a", "f", "o", "r", "m">>, v |-> 74],
       [k |-> <<"c", "i", "/", "c", "d">>, v |-> 76],
       [k |-> <<"s", "y", "s", "t", "e", "m", " ", "d", "e", "s", "i", "g", "n">>, v |-> 80],
       [k |-> <<"m", "i", "c", "r", "o", "s", "e", "r", "v", "i", "c", "e", "s">>, v |-> 77],
       [k |-> <<"c", "l", "o", "u", "d">>, v |-> 82],
       [k |-> <<"d", "e", "v", "o", "p", "s">>, v |-> 80],
       [k |-> <<"m", "a", "c", "h", "i", "n", "e", " ", "l", "e", "a", "r", "n", "i", "n", "g">>, v |-> 75],
       [k |-> <<"s", "q", "l">>, v |-> 85],
       [k |-> <<"g", "i", "t">>, v |-> 95],
       [k |-> <<"l", "i", "n", "u", "x">>, v |-> 88],
       [k |-> <<"a", "p", "i">>, v |-> 85],
       [k |-> <<"r", "e", "s", "t">>, v |-> 84] >>

\* trends.py:350
RisingWords ==
    << <<"t", "y", "p", "e", "s", "c", "r", "i", "p", "t">>,
       <<"k", "u", "b", "e", "r", "n", "e", "t", "e", "s">>,
       <<"r", "u", "s", "t">>,
       <<"g", "o">>,
       <<"t", "e", "r", "r", "a", "f", "o", "r", "m">>,
       <<"s", "y", "s", "t", "e", "m", " ", "d", "e", "s", "i", "g", "n">> >>

\* trends.py:353
DecliningWords ==
    << <<"a", "n", "g", "u", "l", "a", "r">>,
       <<"j", "q", "u", "e", "r", "y">>,
       <<"p", "h", "p">>,
       <<"f", "l", "a", "s", "h">> >>

SkillNames ==
    << <<"K", "u", "b", "e", "r", "n", "e", "t", "e", "s">>,
       <<"T", "y", "p", "e", "S", "c", "r", "i", "p", "t">>,
       <<"G", "o">>,
       <<"D", "j", "a", "n", "g", "o">>,
       <<"M", "o", "n", "g", "o", "D", "B">>,
       <<"S", "y", "s", "t", "e", "m", " ", "D", "e", "s", "i", "g", "n">>,
       <<"A", "n", "g", "u", "l", "a", "r">>,
       <<"P", "H", "P">>,
       <<"j", "Q", "u", "e", "r", "y", " ", "F", "l", "a", "s", "h">>,
       <<"G", "o", " ", "A", "n", "g", "u", "l", "a", "r">>,
       <<"P", "y", "t", "h", "o", "n">>,
       <<"G", "i", "t">>,
       <<"C", "o", "b", "o", "l">> >>

ManyNames ==
    << <<"S", "1">>,
       <<"S", "2">>,
       <<"S", "3">>,
       <<"S", "4">>,
       <<"S", "5">>,
       <<"S", "6">>,
       <<"S", "7">>,
       <<"S", "8">>,
       <<"S", "9">>,
       <<"S", "1", "0">>,
       <<"S", "1", "1">> >>

\* base_demands.get(skill_lower, 70)
BaseDemand(skill_lower) ==
    IF \E i \in 1 .. Len(base_demands) : base_demands[i].k = skill_lower
    THEN base_demands[CHOOSE i \in 1 .. Len(base_demands) :
                          base_demands[i].k = skill_lower].v
    ELSE 70

\* any(x in skill_lower for x in words)
ContainsAny(text, words) ==
    \E i \in 1 .. Len(words) : Contains(text, words[i])

\* trends.py:350-358
TrendType(skill_lower) ==
    IF ContainsAny(skill_lower, RisingWords) THEN "rising"
    ELSE IF ContainsAny(skill_lower, DecliningWords) THEN "declining"
    ELSE "stable"

\* A mutant: a rising skill follows the oscillation of a stable one.
PatternTenths_oscillating(trend_type, base_demand, i) ==
    CASE trend_type = "declining" -> base_demand * 10 - 5 * i
      [] OTHER -> (base_demand + ((i % 3) - 1)) * 10

\* A mutant: the two slopes are exchanged.
PatternTenths_mirrored(trend_type, base_demand, i) ==
    CASE trend_type = "rising" -> base_demand * 10 - 5 * i
      [] trend_type = "declining" -> base_demand * 10 + 8 * i
      [] OTHER -> (base_demand + ((i % 3) - 1)) * 10

\* pattern_func(i), trends.py:352-358, in tenths
PatternTenths(trend_type, base_demand, i) ==
    CASE trend_type = "rising" -> base_demand * 10 + 8 * i
      [] trend_type = "declining" -> base_demand * 10 - 5 * i
      [] OTHER -> (base_demand + ((i % 3) - 1)) * 10

\* A mutant: the value is not clamped.
ClampDemand_open(tenths) == tenths

\* max(30, min(100, value)), trends.py:365
ClampDemand(tenths) == Max(300, Min(1000, tenths))

\* int(round(value)) of a positive value in tenths: a half goes to the
\* even integer.  (i * 0.8 is never within a float error of a half.)
RoundHalfEven(tenths) ==
    LET q == tenths \div 10
        r == tenths % 10
    IN  IF r < 5 THEN q
        ELSE IF r > 5 THEN q + 1
        ELSE IF q % 2 = 0 THEN q ELSE q + 1

\* A mutant: the percentage is truncated to a whole number.
PercentChange_whole(first_value, last_value) ==
    IF first_value = 0 THEN 0
    ELSE LET size == IF last_value >= first_value
                     THEN (last_value - first_value) * 100
                     ELSE (first_value - last_value) * 100
             q == (size \div first_value) * 10
         IN  IF last_value >= first_value THEN q ELSE 0 - q

(* round(percent_change, 1) of trends.py:289 and 305, 373 and 381, in      *)
(* tenths of a percent, for first_value >= 0: the quotient                 *)
(* (last - first) * 1000 / first rounded to the nearest integer, a half    *)
(* going to the even one.  The double arithmetic of the source gives this  *)
(* value for all demand values 0 .. 130 whose difference is below 23.      *)
PercentChange(first_value, last_value) ==
    IF first_value = 0 THEN 0
    ELSE LET size == IF last_value >= first_value
                     THEN (last_value - first_value) * 1000
                     ELSE (first_value - last_value) * 1000
             floor == size \div first_value
             rest == size % first_value
             q == IF 2 * rest < first_value THEN floor
                  ELSE IF 2 * rest > first_value THEN floor + 1
                  ELSE IF floor % 2 = 0 THEN floor ELSE floor + 1
         IN  IF last_value >= first_value THEN q ELSE 0 - q

TrendData(monthly_demand, trend, percent_change, current_demand, data_source) ==
    [monthly_demand |-> monthly_demand, trend |-> trend,
     percent_change |-> percent_change,
     current_demand |-> current_demand, data_source |-> data_source]

\* None, where a trend dictionary is expected
NoTrend == TrendData(<<>>, "", 0, 0, "none")

(* trends.py:315-384, for months >= 1.  The fallback value of line 369 is  *)
(* appended only when pattern_func raises, which it does for no number.    *)
_generate_synthetic_trend_data(skill_name, months) ==
    LET skill_lower == LowerText(skill_name)
        base_demand == BaseDemand(skill_lower)
        trend_type == TrendType(skill_lower)
        monthly_demand ==
            [n \in 1 .. months |->
                RoundHalfEven(ClampDemand(
                    PatternTenths(trend_type, base_demand, n - 1)))]
    IN  TrendData(monthly_demand, trend_type,
                  PercentChange(monthly_demand[1], monthly_demand[months]),
                  monthly_demand[months], "estimated")

\* A call of _generate_synthetic_trend_data.
MaxMonths == 26

SyntheticInit ==
    /\ y_name \in Elems(SkillNames)
    /\ y_months \in 1 .. MaxMonths
    /\ y_result = NoTrend

SyntheticIdle ==
    /\ y_name = <<>>
    /\ y_months = 0
    /\ y_result = NoTrend

GenerateSyntheticTrendData ==
    /\ y_result = NoTrend
    /\ y_result' = _generate_synthetic_trend_data(y_name, y_months)
    /\ UNCHANGED <<y_name, y_months>>

-----------------------------------------------------------------------------
(* GET /trends, trends.py:91-190.  The store holds the skill_market_data   *)
(* names and the skill_trend_history rows [skill_name, month,              *)
(* demand_score]; dates are counted in months.                             *)

\* The mapped attributes of the class, models/skill_trend.py:10-31.
SkillTrendHistory ==
    {"id", "skill_name", "month", "demand_score", "job_postings_count",
     "search_volume", "github_stars_delta", "created_at", "skill_market"}

\* func.lower(a) == func.lower(b)
LowerMatch(a, b) == LowerText(a) = LowerText(b)

\* ORDER BY column ASC on a set of rows
RECURSIVE OrderedBy(_, _)
OrderedBy(rows, column) ==
    IF rows = {} THEN <<>>
    ELSE LET first == CHOOSE x \in rows : \A y \in rows : x[column] <= y[column]
         IN  <<first>> \o OrderedBy(rows \ {first}, column)

\* trends.py:282-285: values are put in front until there are `months`
RECURSIVE Padded(_, _)
Padded(monthly_demand, months) ==
    IF Len(monthly_demand) >= months THEN monthly_demand
    ELSE Padded(<<Max(30, monthly_demand[1] - 2)>> \o monthly_demand, months)

(* trends.py:212-312.  `fault` is a store error on a query.  Building the  *)
(* history query reads SkillTrendHistory.recorded_at (line 254); the       *)
(* AttributeError of a class without that attribute is caught at line 310, *)
(* as every other error is.  demand_score is a non-null integer column, so *)
(* int(demand) accepts every record.                                       *)
_fetch_skill_trend_data(skill_name, months, market, history, today, fault) ==
    IF fault THEN NoTrend
    ELSE IF ~\E name \in market : LowerMatch(name, skill_name) THEN NoTrend
    ELSE IF "recorded_at" \notin SkillTrendHistory THEN NoTrend
    ELSE LET cutoff_date == today - months
             trend_records ==
                 OrderedBy({rec \in history :
                               /\ LowerMatch(rec.skill_name, skill_name)
                               /\ rec["recorded_at"] >= cutoff_date},
                           "recorded_at")
             monthly_demand ==
                 Padded([i \in 1 .. Len(trend_records) |->
                            trend_records[i].demand_score], months)
             first_value == monthly_demand[1]
             last_value == monthly_demand[Len(monthly_demand)]
             change == (last_value - first_value) * 100
         IN  IF trend_records = <<>> THEN NoTrend
             ELSE TrendData(SubSeq(monthly_demand, 1, months),
                            IF first_value # 0 /\ change > 5 * first_value
                            THEN "rising"
                            ELSE IF first_value # 0 /\ change < (0 - 5) * first_value
                            THEN "declining" ELSE "stable",
                            PercentChange(first_value, last_value),
                            last_value, "historical")

\* s.strip(), for blanks
RECURSIVE LStrip(_)
LStrip(text) ==
    IF text # <<>> /\ Head(text) = " " THEN LStrip(Tail(text)) ELSE text

RECURSIVE RStrip(_)
RStrip(text) ==
    IF text # <<>> /\ text[Len(text)] = " "
    THEN RStrip(SubSeq(text, 1, Len(text) - 1)) ELSE text

Strip(text) == RStrip(LStrip(text))

\* trends.py:126-134: the first of the names equal in lower case is kept
RECURSIVE UniqueSkills(_, _)
UniqueSkills(skill_list, seen) ==
    IF skill_list = <<>> THEN <<>>
    ELSE IF LowerText(Head(skill_list)) \in seen
    THEN UniqueSkills(Tail(skill_list), seen)
    ELSE <<Head(skill_list)>>
         \o UniqueSkills(Tail(skill_list),
                         seen \cup {LowerText(Head(skill_list))})

TrendsResponse(status, skills, data_period_months, skills_not_found) ==
    [status |-> status, skills |-> skills,
     data_period_months |-> data_period_months,
     skills_analyzed |-> Len(skills), warning |-> skills_not_found]

NoTrendsResponse == TrendsResponse(0, <<>>, 0, <<>>)

(* trends.py:91-190.  `parts` is skills.split(','); the response maps each *)
(* kept name to its trend data, in request order; warning lists the names  *)
(* answered with a synthetic series (the key is absent when it is empty).  *)
get_market_trends(parts, months, market, history, today, fault) ==
    LET stripped == [i \in 1 .. Len(parts) |-> Strip(parts[i])]
        given == SelectSeq(stripped, LAMBDA s : s # <<>>)
        unique_skills == UniqueSkills(given, {})
        skill_list == SubSeq(unique_skills, 1, Min(10, Len(unique_skills)))
        fetched == [i \in 1 .. Len(skill_list) |->
                       _fetch_skill_trend_data(skill_list[i], months, market,
                                               history, today, fault)]
        trends_data ==
            [i \in 1 .. Len(skill_list) |->
                [name |-> skill_list[i],
                 data |-> IF fetched[i] # NoTrend THEN fetched[i]
                          ELSE _generate_synthetic_trend_data(skill_list[i],
                                                              months)]]
        not_found == {i \in 1 .. Len(skill_list) : fetched[i] = NoTrend}
        skills_not_found ==
            SelectSeq(skill_list,
                      LAMBDA s : \E i \in not_found : skill_list[i] = s)
    IN  IF given = <<>> THEN TrendsResponse(400, <<>>, 0, <<>>)
        ELSE TrendsResponse(200, trends_data, months, skills_not_found)

\* Query(12, ge=6, le=24), trends.py:94
QueryMonthsMin == 6
QueryMonthsMax == 24

Today == 30

TrendQueries ==
    { << <<"P", "y", "t", "h", "o", "n">> >>,
      << <<" ", "p", "y", "t", "h", "o", "n", " ">>, <<"K", "u", "b", "e", "r", "n", "e", "t", "e", "s">>, <<"P", "Y", "T", "H", "O", "N">> >>,
      << <<>>, <<" ">> >>,
      << <<"A", "n", "g", "u", "l", "a", "r">>, <<"G", "o">> >>,
      ManyNames }

HistoryRows ==
    { [skill_name |-> <<"P", "y", "t", "h", "o", "n">>, month |-> 29, demand_score |-> 80],
      [skill_name |-> <<"P", "y", "t", "h", "o", "n">>, month |-> 27, demand_score |-> 70],
      [skill_name |-> <<"P", "y", "t", "h", "o", "n">>, month |-> 2, demand_score |-> 60],
      [skill_name |-> <<"K", "u", "b", "e", "r", "n", "e", "t", "e", "s">>, month |-> 28, demand_score |-> 0] }

TrendsInit ==
    /\ t_history \in SUBSET HistoryRows
    /\ t_market \in {{}, { <<"P", "y", "t", "h", "o", "n">> }, { <<"P", "y", "t", "h", "o", "n">>, <<"K", "u", "b", "e", "r", "n", "e", "t", "e", "s">> }}
    /\ \A rec \in t_history : rec.skill_name \in t_market
    /\ t_today = Today
    /\ t_query = [parts |-> <<>>, months |-> 0, fault |-> FALSE]
    /\ t_response = NoTrendsResponse

TrendsIdle ==
    /\ t_history = {}
    /\ t_market = {}
    /\ t_today = 0
    /\ t_query = [parts |-> <<>>, months |-> 0, fault |-> FALSE]
    /\ t_response = NoTrendsResponse

GetMarketTrends ==
    /\ t_response = NoTrendsResponse
    /\ \E parts \in TrendQueries,
          months \in {QueryMonthsMin, QueryMonthsMax}, fault \in BOOLEAN :
          /\ t_query' = [parts |-> parts, months |-> months, fault |-> fault]
          /\ t_response' = get_market_trends(parts, months, t_market,
                                             t_history, t_today, fault)
    /\ UNCHANGED <<t_history, t_market, t_today>>

-----------------------------------------------------------------------------
(* GET /market/demand, market.py:29-107, as request tasks over the         *)
(* skill_market_data table, the module globals cached_data and             *)
(* last_cache_time, and the clock (in minutes).  A task runs to its        *)
(* `await db.execute(...)` in one step and from there to its return in a   *)
(* second one; tasks of other requests may run in between.  Skill names    *)
(* are texts written one character per piece; `skills` is None or the      *)
(* pieces of the parameter between its commas.                             *)

\* timedelta(hours=1), market.py:24, in minutes
CACHE_DURATION == 60

MaxMarketClock == 120    \* the clock runs from 0 to MaxMarketClock minutes
MarketClockStep == CACHE_DURATION \div 2

NoSkills == <<"None">>
EmptyDemand == [x \in {} |-> 0]

\* What the skill_market_data table may hold.
DemandTables ==
    { EmptyDemand,
      [x \in { <<"G", "o">> } |-> 75],
      [x \in { <<"G", "o">>, <<"P", "H", "P">> } |->
          IF x = <<"G", "o">> THEN 80 ELSE 40] }

\* The values of the query parameter: absent, "", ",", "Go", " PHP ,Go,C".
SkillParams ==
    { NoSkills,
      << <<>> >>,
      << <<>>, <<>> >>,
      << <<"G", "o">> >>,
      << <<" ", "P", "H", "P", " ">>, <<"G", "o">>, <<"C">> >> }

\* `if skills:`, line 45: None and "" are false
SkillsGiven(skills) == skills # NoSkills /\ skills # << <<>> >>

\* line 47: [s.strip() for s in skills.split(',') if s.strip()]
SkillNamesOf(skills) ==
    LET stripped == [i \in 1 .. Len(skills) |-> Strip(skills[i])]
    IN  SelectSeq(stripped, LAMBDA s : s # <<>>)

\* lines 52-59: the rows whose name is one of skill_names, as a dictionary
DemandOf(table, skill_names) ==
    [x \in {n \in DOMAIN table : n \in Elems(skill_names)} |-> table[x]]

\* A mutant: an entry exactly one hour old still counts as valid.
CacheValid_inclusive(time, data, t) ==
    /\ time # Unset
    /\ t - time <= CACHE_DURATION
    /\ data # EmptyDemand

\* line 70: last_cache_time and (now - last_cache_time) < CACHE_DURATION
\* and cached_data
CacheValid(time, data, t) ==
    /\ time # Unset
    /\ t - time < CACHE_DURATION
    /\ data # EmptyDemand

\* Two request tasks, which may overlap.
MarketRequests == {1, 2}

\* `now` is the local of line 69; saw_data and saw_time are the globals as
\* the task read them at line 70; hit tells that line 72 returned.
IdleDemandRequest ==
    [pc |-> "idle", skills |-> NoSkills, now |-> 0, saw_data |-> EmptyDemand,
     saw_time |-> Unset, hit |-> FALSE, status |-> 0,
     response |-> EmptyDemand]

MarketInit ==
    /\ md_table \in DemandTables
    /\ cached_data = EmptyDemand
    /\ last_cache_time = Unset
    /\ md_now = 0
    /\ md_requests = [r \in MarketRequests |-> IdleDemandRequest]

MarketIdle ==
    /\ md_table = EmptyDemand
    /\ cached_data = EmptyDemand
    /\ last_cache_time = Unset
    /\ md_now = 0
    /\ md_requests = [r \in MarketRequests |-> IdleDemandRequest]

\* lines 45-50 and 52: a request with skills, up to its query
GetDemandOfSkills(r) ==
    /\ md_requests[r].pc = "idle"
    /\ \E skills \in SkillParams :
          /\ SkillsGiven(skills)
          /\ md_requests' = [md_requests EXCEPT ![r] =
                 IF SkillNamesOf(skills) = <<>>
                 THEN [IdleDemandRequest EXCEPT !.pc = "done", !.status = 200,
                                                !.skills = skills]
                 ELSE [IdleDemandRequest EXCEPT !.pc = "query",
                                                !.skills = skills]]
    /\ UNCHANGED <<md_table, cached_data, last_cache_time, md_now>>

\* lines 52-62 and 96-101: the query returns, or fails with a store error
DemandOfSkillsFetched(r) ==
    /\ md_requests[r].pc = "query"
    /\ \E fault \in BOOLEAN :
          LET q == md_requests[r]
          IN  md_requests' = [md_requests EXCEPT ![r] =
                  IF fault THEN [q EXCEPT !.pc = "done", !.status = 500]
                  ELSE [q EXCEPT !.pc = "done", !.status = 200,
                                 !.response =
                                     DemandOf(md_table,
                                              SkillNamesOf(q.skills))]]
    /\ UNCHANGED <<md_table, cached_data, last_cache_time, md_now>>

\* lines 64-75: a request without skills, up to the return of the cached
\* dictionary or up to its query
GetDemandOfAll(r) ==
    /\ md_requests[r].pc = "idle"
    /\ \E skills \in SkillParams :
          /\ ~SkillsGiven(skills)
          /\ LET seen == [IdleDemandRequest EXCEPT
                              !.skills = skills, !.now = md_now,
                              !.saw_data = cached_data,
                              !.saw_time = last_cache_time]
             IN  md_requests' = [md_requests EXCEPT ![r] =
                     IF CacheValid(last_cache_time, cached_data, md_now)
                     THEN [seen EXCEPT !.pc = "done", !.status = 200,
                                       !.hit = TRUE, !.response = cached_data]
                     ELSE [seen EXCEPT !.pc = "fetch"]]
    /\ UNCHANGED <<md_table, cached_data, last_cache_time, md_now>>

\* lines 75-94 and 96-101: the query returns and both globals are
\* assigned, or the query fails with a store error
DemandOfAllFetched(r) ==
    /\ md_requests[r].pc = "fetch"
    /\ \E fault \in BOOLEAN :
          IF fault
          THEN /\ md_requests' = [md_requests EXCEPT ![r] =
                      [md_requests[r] EXCEPT !.pc = "done", !.status = 500]]
               /\ UNCHANGED <<cached_data, last_cache_time>>
          ELSE /\ cached_data' = md_table
               /\ last_cache_time' = md_requests[r].now
               /\ md_requests' = [md_requests EXCEPT ![r] =
                      [md_requests[r] EXCEPT !.pc = "done", !.status = 200,
                                             !.response = md_table]]
    /\ UNCHANGED <<md_table, md_now>>

\* another writer changes the table
MarketTableChanges ==
    /\ \E table \in DemandTables \ {md_table} : md_table' = table
    /\ UNCHANGED <<cached_data, last_cache_time, md_now, md_requests>>

\* time passes
MarketTick ==
    /\ md_now + MarketClockStep <= MaxMarketClock
    /\ md_now' = md_now + MarketClockStep
    /\ UNCHANGED <<md_table, cached_data, last_cache_time, md_requests>>

-----------------------------------------------------------------------------
(* Specifications.  Each one runs one part of the program and holds the   *)
(* variables of the other parts idle.                                     *)

SpecNormFrame == <<healthVars, gapVars, salaryVars, apiVars, synthVars,
                    trendVars, pipeVars, aiVars, marketVars>>
SpecNormInit == NormInit /\ HealthIdle /\ GapIdle /\ SalaryIdle /\ ApiIdle /\
    SyntheticIdle /\ TrendsIdle /\ PipeIdle /\ AiIdle /\
    MarketIdle
SpecNormNext ==
    \/ ApplyNormalizeProficiency /\ UNCHANGED SpecNormFrame
    \/ ApplyNormalizeMarketDemand /\ UNCHANGED SpecNormFrame
SpecNorm == SpecNormInit /\ [][SpecNormNext]_vars

SpecHealthFrame == <<normVars, gapVars, salaryVars, apiVars, synthVars,
                      trendVars, pipeVars, aiVars, marketVars>>
SpecHealthInit == HealthInit /\ NormIdle /\ GapIdle /\ SalaryIdle /\
    ApiIdle /\ SyntheticIdle /\ TrendsIdle /\ PipeIdle /\ AiIdle /\
    MarketIdle
SpecHealthNext ==
    \/ GetCareerHealth /\ UNCHANGED SpecHealthFrame
SpecHealth == SpecHealthInit /\ [][SpecHealthNext]_vars

SpecGapFrame == <<normVars, healthVars, salaryVars, apiVars, synthVars,
                   trendVars, pipeVars, aiVars, marketVars>>
SpecGapInit == GapInit /\ NormIdle /\ HealthIdle /\ SalaryIdle /\ ApiIdle /\
    SyntheticIdle /\ TrendsIdle /\ PipeIdle /\ AiIdle /\
    MarketIdle
SpecGapNext ==
    \/ CalculateGapAnalysis /\ UNCHANGED SpecGapFrame
SpecGap == SpecGapInit /\ [][SpecGapNext]_vars

SpecSalaryFrame == <<normVars, healthVars, gapVars, apiVars, synthVars,
                      trendVars, pipeVars, aiVars, marketVars>>
SpecSalaryInit == SalaryInit /\ NormIdle /\ HealthIdle /\ GapIdle /\
    ApiIdle /\ SyntheticIdle /\ TrendsIdle /\ PipeIdle /\ AiIdle /\
    MarketIdle
SpecSalaryNext ==
    \/ CalculateSalaryImpact /\ UNCHANGED SpecSalaryFrame
SpecSalary == SpecSalaryInit /\ [][SpecSalaryNext]_vars

SpecGapApiFrame == <<normVars, healthVars, gapVars, salaryVars, synthVars,
                      trendVars, pipeVars, aiVars, marketVars>>
SpecGapApiInit == ApiInit /\ NormIdle /\ HealthIdle /\ GapIdle /\
    SalaryIdle /\ SyntheticIdle /\ TrendsIdle /\ PipeIdle /\ AiIdle /\
    MarketIdle
SpecGapApiNext ==
    \/ \E r \in ApiRequests : GetGapAnalysis(r) /\ UNCHANGED SpecGapApiFrame
SpecGapApi == SpecGapApiInit /\ [][SpecGapApiNext]_vars

SpecSyntheticFrame == <<normVars, healthVars, gapVars, salaryVars, apiVars,
                         trendVars, pipeVars, aiVars, marketVars>>
SpecSyntheticInit == SyntheticInit /\ NormIdle /\ HealthIdle /\ GapIdle /\
    SalaryIdle /\ ApiIdle /\ TrendsIdle /\ PipeIdle /\ AiIdle /\
    MarketIdle
SpecSyntheticNext ==
    \/ GenerateSyntheticTrendData /\ UNCHANGED SpecSyntheticFrame
SpecSynthetic == SpecSyntheticInit /\ [][SpecSyntheticNext]_vars

SpecTrendsFrame == <<normVars, healthVars, gapVars, salaryVars, apiVars,
                      synthVars, pipeVars, aiVars, marketVars>>
SpecTrendsInit == TrendsInit /\ NormIdle /\ HealthIdle /\ GapIdle /\
    SalaryIdle /\ ApiIdle /\ SyntheticIdle /\ PipeIdle /\ AiIdle /\
    MarketIdle
SpecTrendsNext ==
    \/ GetMarketTrends /\ UNCHANGED SpecTrendsFrame
SpecTrends == SpecTrendsInit /\ [][SpecTrendsNext]_vars

SpecAIFrame == <<normVars, healthVars, gapVars, salaryVars, apiVars,
                  synthVars, trendVars, pipeVars, marketVars>>
SpecAIInit == AiInit /\ NormIdle /\ HealthIdle /\ GapIdle /\ SalaryIdle /\
    ApiIdle /\ SyntheticIdle /\ TrendsIdle /\ PipeIdle /\
    MarketIdle
SpecAINext ==
    \/ AiBuildPrompt /\ UNCHANGED SpecAIFrame
    \/ AiCall /\ UNCHANGED SpecAIFrame
    \/ AiExhausted /\ UNCHANGED SpecAIFrame
    \/ AiTimeout /\ UNCHANGED SpecAIFrame
    \/ AiRateLimit /\ UNCHANGED SpecAIFrame
    \/ AiApiError /\ UNCHANGED SpecAIFrame
    \/ AiResponse /\ UNCHANGED SpecAIFrame
SpecAI == SpecAIInit /\ [][SpecAINext]_vars

(* The generator call has a timeout (line 2701) and the sleeps are finite, *)
(* so a pending step of the coroutine is eventually taken.                 *)
SpecAILive == SpecAIInit /\ [][SpecAINext]_vars /\ WF_vars(SpecAINext)

SpecMarketFrame == <<normVars, healthVars, gapVars, salaryVars, apiVars,
                      synthVars, trendVars, pipeVars, aiVars>>
SpecMarketInit == MarketInit /\ NormIdle /\ HealthIdle /\ GapIdle /\
    SalaryIdle /\ ApiIdle /\ SyntheticIdle /\ TrendsIdle /\ PipeIdle /\
    AiIdle
SpecMarketNext ==
    \/ \E r \in MarketRequests : GetDemandOfSkills(r) /\ UNCHANGED SpecMarketFrame
    \/ \E r \in MarketRequests : DemandOfSkillsFetched(r) /\ UNCHANGED SpecMarketFrame
    \/ \E r \in MarketRequests : GetDemandOfAll(r) /\ UNCHANGED SpecMarketFrame
    \/ \E r \in MarketRequests : DemandOfAllFetched(r) /\ UNCHANGED SpecMarketFrame
    \/ MarketTableChanges /\ UNCHANGED SpecMarketFrame
    \/ MarketTick /\ UNCHANGED SpecMarketFrame
SpecMarket == SpecMarketInit /\ [][SpecMarketNext]_vars

Frame == <<normVars, healthVars, gapVars, salaryVars, apiVars, synthVars,
            trendVars, aiVars, marketVars>>
Init == PipeInit /\ NormIdle /\ HealthIdle /\ GapIdle /\ SalaryIdle /\
    ApiIdle /\ SyntheticIdle /\ TrendsIdle /\ AiIdle /\
    MarketIdle
Next ==
    \/ \E r \in Requests : Start(r) /\ UNCHANGED Frame
    \/ \E r \in Requests : SkipCache(r) /\ UNCHANGED Frame
    \/ \E r \in Requests : CacheCheck(r) /\ UNCHANGED Frame
    \/ \E r \in Requests : GenerateTemplate(r) /\ UNCHANGED Frame
    \/ \E r \in Requests : GenerateAiPromptFault(r) /\ UNCHANGED Frame
    \/ \E r \in Requests : CacheWrite(r) /\ UNCHANGED Frame
    \/ \E r \in Requests : Respond(r) /\ UNCHANGED Frame
    \/ Tick /\ UNCHANGED Frame
Spec == Init /\ [][Next]_vars

-----------------------------------------------------------------------------
(* Properties of generate_career_summary (Spec).                           *)

Stored(q) == q.candidate_id \in DOMAIN db_skills
SourceOf(d) == DictGet(d, Key("source"))
HasRequiredFields(d) ==
    \A i \in 1 .. Len(required_fields) : DictHas(d, Key(required_fields[i]))
FullResult(q) ==
    /\ q.status = 200
    /\ HasRequiredFields(q.response)
    /\ SourceOf(q.response) \in {Str(<<"ai">>), Str(<<"template">>)}

(* C1: every finished request for a stored candidate has returned a result *)
(* with the six summary fields and a source of ai or template, whatever    *)
(* the number of skill rows, the cache state, the regenerate flag, the     *)
(* client and the store faults; the only error outcome of a finished       *)
(* request is 404, for a candidate that is not stored.                     *)
C1_AlwaysFullResult ==
    \A r \in Requests :
        requests[r].pc = "done" =>
            IF Stored(requests[r]) THEN FullResult(requests[r])
            ELSE requests[r].status = 404

(* C2: a finished request for an eligible candidate (client configured, 3  *)
(* or more skill rows) none of whose generator calls succeeded has         *)
(* returned a result with source template and the six fields.              *)
C2_FailedGeneratorGivesTemplate ==
    \A r \in Requests :
        LET q == requests[r]
        IN  (/\ q.pc = "done"
             /\ Stored(q)
             /\ openai_client
             /\ Len(db_skills[q.candidate_id]) >= 3
             /\ ~q.cache_hit)
            => /\ FullResult(q)
               /\ SourceOf(q.response) = Str(<<"template">>)

(* C3: when a request without regenerate looks its key up, without a store *)
(* fault, at a time before the expires_at of the row stored under the key, *)
(* it returns exactly the response returned by the request whose cache     *)
(* write stored that row (generated_at and source included), calls the     *)
(* generator zero times and does not call the cache write.                 *)
ReadLive(q) ==
    /\ q.pc = "done"
    /\ ~q.regenerate
    /\ q.saw # NoRow
    /\ ~q.read_fault
    /\ q.checked_at < q.saw.expires_at

WroteRowSeenBy(first, second) ==
    /\ first.pc = "done"
    /\ first.status = 200
    /\ first.wrote # NoRow
    /\ first.wrote = second.saw
    /\ ReadLive(second)

-----------------------------------------------------------------------------
(* Properties of _generate_ai_summary (SpecAI).                            *)

\* some keyword occurs in the text, case-insensitively
TextHasKeyword(text) ==
    \E n \in 1 .. Len(OFFENSIVE_KEYWORDS) :
        Contains(LowerText(text), OFFENSIVE_KEYWORDS[n])

\* some str at any depth of the value holds a keyword
RECURSIVE CarriesKeyword(_)
CarriesKeyword(v) ==
    CASE v.t = "str" -> TextHasKeyword(v.s)
      [] v.t = "list" -> \E i \in 1 .. Len(v.items) : CarriesKeyword(v.items[i])
      [] v.t = "dict" ->
           \E i \in 1 .. Len(v.items) : CarriesKeyword(v.items[i].val)
      [] OTHER -> FALSE

-----------------------------------------------------------------------------
(* Properties of the normalizers (SpecNorm).                               *)

(* C5: for every proficiency input p the normalizer in use returns a value *)
(* in [0,5], and for p > 5 it returns clamp(0, 5, p/100*5).  Both sides of *)
(* the equation are taken in ten-thousandths so that p/100*5 is exact.     *)
C5_ProficiencyRescaled ==
    n_prof # Unset =>
        /\ 0 <= n_prof /\ n_prof <= 500
        /\ (n_raw.k = "num" /\ n_raw.v > 500) =>
               n_prof * 100 = Clamp(0, 50000, n_raw.v * 5)

(* C6: for every demand input d the normalizer in use returns a value in   *)
(* [0,100], and for 0 <= d <= 1 it returns clamp(0, 100, d*100).           *)
C6_DemandRescaled ==
    n_dem # Unset =>
        /\ 0 <= n_dem /\ n_dem <= 10000
        /\ (n_raw.k = "num" /\ 0 <= n_raw.v /\ n_raw.v <= 100) =>
               n_dem = Clamp(0, 10000, n_raw.v * 100)

-----------------------------------------------------------------------------
(* Properties of the score engine (SpecHealth).                            *)

Analysed == NormalizeFrom(h_skills, h_failed, 1)
Score(x) == x \in 0 .. 100

(* C7: for every non-empty list of normalized skills the four sub-scores   *)
(* and the overall score computed from them lie in [0,100]; for the empty  *)
(* list each sub-score and the overall score is exactly 50.                *)
C7_ScoresBounded ==
    /\ \A u \in BOOLEAN :
          /\ calculate_skills_relevance(<<>>, u) = 50
          /\ calculate_market_alignment(<<>>, u) = 50
          /\ calculate_learning_trajectory(<<>>, u) = 50
          /\ calculate_industry_demand(<<>>, u) = 50
    /\ h_result.status = 200 =>
          /\ Score(h_result.skills_relevance)
          /\ Score(h_result.market_alignment)
          /\ Score(h_result.learning_trajectory)
          /\ Score(h_result.industry_demand)
          /\ Score(h_result.overall_score)
          /\ h_result.overall_score =
                 RoundQuarter(h_result.skills_relevance
                              + h_result.market_alignment
                              + h_result.learning_trajectory
                              + h_result.industry_demand)
          /\ Analysed = <<>> =>
                 /\ h_result.skills_relevance = 50
                 /\ h_result.market_alignment = 50
                 /\ h_result.learning_trajectory = 50
                 /\ h_result.industry_demand = 50
                 /\ h_result.overall_score = 50

\* Three skills were analysed and a sub-score sits on the cap.
C7_Witness ==
    /\ h_result.status = 200
    /\ Len(Analysed) = 3
    /\ h_result.skills_relevance = 100
    /\ h_result.industry_demand = 100
    /\ h_result.overall_score < 100

QualityLabel(n) ==
    IF n >= 10 THEN "excellent"
    ELSE IF n >= 5 THEN "good"
    ELSE IF n >= 3 THEN "fair"
    ELSE "limited"

-----------------------------------------------------------------------------
(* Properties of the gap analysis (SpecGap).                               *)

TheRole    == g_roles[FindRole(g_roles, g_selected)]
RoleFound  == g_result.overall_match_score # Absent /\ FindRole(g_roles, g_selected) # 0
Owns(name) == \E i \in 1 .. Len(g_user) : Lower(g_user[i]) = Lower(name)
OwnedRequired ==
    Cardinality({i \in 1 .. Len(TheRole.required_skills) :
                    Owns(TheRole.required_skills[i].name)})
CountNamed(entries, name) ==
    Cardinality({i \in 1 .. Len(entries) : entries[i].name = name})
MatchingAt(percentage) ==
    SelectSeq(g_result.matching_skills,
              LAMBDA e : e.matchPercentage = percentage)

(* C9 as stated: for a found role with R >= 1 required skills of which the *)
(* candidate owns M, overall_match_score = M / R * 100; with no required   *)
(* skill it is 50.                                                         *)
C9_MatchScoreOriginal ==
    RoleFound =>
        LET R == Len(TheRole.required_skills)
        IN  /\ R >= 1 => g_result.overall_match_score * R = OwnedRequired * 100
            /\ R = 0 => g_result.overall_match_score = 50

(* C9 amended: overall_match_score is M / R * 100 truncated to an integer  *)
(* (R = 3, M = 2 gives 66), a value in [0,100]; with no required skill it  *)
(* is 50.                                                                  *)
C9_MatchScore ==
    RoleFound =>
        LET R == Len(TheRole.required_skills)
            score == g_result.overall_match_score
        IN  /\ R >= 1 => /\ score \in 0 .. 100
                         /\ score * R <= OwnedRequired * 100
                         /\ OwnedRequired * 100 < (score + 1) * R
            /\ R = 0 => score = 50

\* Two of three required skills are owned, the score is 66.
C9_Witness ==
    /\ RoleFound
    /\ Len(TheRole.required_skills) = 3
    /\ OwnedRequired = 2
    /\ g_result.overall_match_score = 66

(* C10: for a found role every required skill gives exactly one entry, a   *)
(* critical gap when it is not owned and a matching entry at 95 when it    *)
(* is; every optional skill gives exactly one entry, a skill to improve    *)
(* with gap 70 when it is not owned and a matching entry at 85 when it is; *)
(* so |critical_gaps| + |matching at 95| = |required| and                  *)
(* |skills_to_improve| + |matching at 85| = |optional|.                    *)
C10_RolePartition ==
    RoleFound =>
        /\ \A i \in 1 .. Len(TheRole.required_skills) :
              LET name == TheRole.required_skills[i].name
              IN  /\ CountNamed(g_result.critical_gaps, name)
                         = (IF Owns(name) THEN 0 ELSE 1)
                  /\ CountNamed(MatchingAt(95), name)
                         = (IF Owns(name) THEN 1 ELSE 0)
        /\ \A i \in 1 .. Len(TheRole.optional_skills) :
              LET name == TheRole.optional_skills[i].name
              IN  /\ CountNamed(g_result.skills_to_improve, name)
                         = (IF Owns(name) THEN 0 ELSE 1)
                  /\ CountNamed(MatchingAt(85), name)
                         = (IF Owns(name) THEN 1 ELSE 0)
        /\ \A i \in 1 .. Len(g_result.skills_to_improve) :
              g_result.skills_to_improve[i].gap = 70
        /\ Len(g_result.critical_gaps) + Len(MatchingAt(95))
               = Len(TheRole.required_skills)
        /\ Len(g_result.skills_to_improve) + Len(MatchingAt(85))
               = Len(TheRole.optional_skills)
        /\ Len(g_result.matching_skills)
               = Len(MatchingAt(95)) + Len(MatchingAt(85))

\* All four kinds of entry occur, and "Docker" is required and optional.
C10_Witness ==
    /\ RoleFound
    /\ g_result.critical_gaps # <<>>
    /\ g_result.skills_to_improve # <<>>
    /\ CountNamed(MatchingAt(95), "Docker") = 1
    /\ CountNamed(MatchingAt(85), "Docker") = 1

-----------------------------------------------------------------------------
(* Properties of calculate_salary_impact (SpecSalary).                     *)

\* clamp(1.5, 15, clamp(30, 100, demand) * 1000 * max(0.3, (t - c)/5)
\* / 100000), in thousandths of a lakh
SalaryClaimed(demand, current, target) ==
    Clamp(1500, 15000,
          Clamp(30, 100, demand) * Max(3, 2 * (target - current)))

-----------------------------------------------------------------------------
(* Properties of get_gap_analysis (SpecGapApi).                            *)

\* the candidate owns the i-th required skill of the role
OwnsRequired(candidate_id, role_index, i) ==
    Lower(api_roles[role_index].required_skills[i].name)
        \in Elems(LowerAll(api_owned[candidate_id]))

DifferOnRequired(c1, c2, role) ==
    LET k == FindRole(api_roles, role)
    IN  /\ k # 0
        /\ \E i \in 1 .. Len(api_roles[k].required_skills) :
               OwnsRequired(c1, k, i) # OwnsRequired(c2, k, i)

(* C12: two answered requests for the same role, for two candidates of     *)
(* whom one owns a required skill of the role that the other does not,     *)
(* carry different critical_gaps and different matching_skills.            *)
C12_OwnSkillsDecide ==
    \A r1 \in ApiRequests, r2 \in ApiRequests :
        LET a == api_requests[r1].response
            b == api_requests[r2].response
        IN  (/\ api_requests[r1].pc = "done"
             /\ api_requests[r2].pc = "done"
             /\ a.status = 200
             /\ b.status = 200
             /\ a.role = b.role
             /\ DifferOnRequired(a.candidate_id, b.candidate_id, a.role))
            => /\ a.critical_gaps # b.critical_gaps
               /\ a.matching_skills # b.matching_skills

-----------------------------------------------------------------------------
(* Properties of _generate_synthetic_trend_data (SpecSynthetic).           *)

(* C13: for every skill name and every months >= 1 the series returned has *)
(* exactly `months` points, every point is an integer from 30 to 100, and  *)
(* the result is tagged data_source = "estimated".                         *)
C13_SyntheticSeries ==
    y_result # NoTrend =>
        /\ Len(y_result.monthly_demand) = y_months
        /\ \A i \in 1 .. Len(y_result.monthly_demand) :
               y_result.monthly_demand[i] \in 30 .. 100
        /\ y_result.data_source = "estimated"

\* TypeScript over 25 months or more: the last values are clamped to 100
C13_Witness ==
    /\ y_name = SkillNames[2]
    /\ y_months >= 25
    /\ y_result # NoTrend
    /\ PatternTenths("rising", 82, 24) > 1000
    /\ y_result.monthly_demand[25] = 100

NonDecreasing(s) == \A i \in 1 .. Len(s) - 1 : s[i] <= s[i + 1]
NonIncreasing(s) == \A i \in 1 .. Len(s) - 1 : s[i] >= s[i + 1]

(* C14: a name that contains one of typescript, kubernetes, rust, go,      *)
(* terraform, system design is classified as rising, its pattern is        *)
(* base + 0.8 * i, and both the pattern and the series returned (clamped   *)
(* and rounded) never decrease from one month to the next; the series of a *)
(* name classified as declining never increases.                           *)
C14_TrendMonotone ==
    y_result # NoTrend =>
        LET skill_lower == LowerText(y_name)
            base == BaseDemand(skill_lower)
            pattern == [n \in 1 .. y_months |->
                           PatternTenths(y_result.trend, base, n - 1)]
        IN  /\ ContainsAny(skill_lower, RisingWords) =>
                  /\ y_result.trend = "rising"
                  /\ pattern = [n \in 1 .. y_months |-> base * 10 + 8 * (n - 1)]
                  /\ NonDecreasing(pattern)
                  /\ NonDecreasing(y_result.monthly_demand)
            /\ y_result.trend = "declining" =>
                  /\ NonIncreasing(pattern)
                  /\ NonIncreasing(y_result.monthly_demand)

\* Kubernetes over 6 months: 78, 78.8, 79.6, 80.4, 81.2, 82
C14_Witness ==
    /\ y_name = SkillNames[1]
    /\ y_months = 6
    /\ y_result.trend = "rising"
    /\ y_result.monthly_demand = <<78, 79, 80, 80, 81, 82>>

-----------------------------------------------------------------------------
(* Properties of get_market_trends (SpecTrends).                           *)

\* the store holds a record of the skill within the last `months` months
HasHistory(skill_name, months) ==
    \E rec \in t_history :
        /\ LowerMatch(rec.skill_name, skill_name)
        /\ rec.month >= t_today - months

(* C15: in an answered request every skill whose history the store holds   *)
(* within the requested months, the lookup not having failed, is tagged    *)
(* historical; a skill is tagged estimated only when the store holds no    *)
(* such record or the lookup failed.                                       *)
C15_HistoryTaggedHistorical ==
    t_response.status = 200 =>
        \A i \in 1 .. Len(t_response.skills) :
            LET entry == t_response.skills[i]
                stored == HasHistory(entry.name, t_query.months)
            IN  /\ entry.data.data_source \in {"historical", "estimated"}
                /\ (stored /\ ~t_query.fault) =>
                       entry.data.data_source = "historical"
                /\ entry.data.data_source = "estimated" =>
                       (~stored \/ t_query.fault)

-----------------------------------------------------------------------------
(* Properties of the summary cache and of eligibility (Spec).              *)

\* the request looked its key up, without regenerate and without a store
\* fault, and found a row at or after the row's expires_at
ReadExpired(q) ==
    /\ q.pc \notin {"idle", "check"}
    /\ ~q.regenerate
    /\ ~q.read_fault
    /\ q.saw # NoRow
    /\ q.checked_at >= q.saw.expires_at

C17_IneligibleGetsTemplate ==
    \A r \in Requests :
        LET q == requests[r]
        IN  (/\ q.pc = "done"
             /\ Stored(q)
             /\ ~q.cache_hit
             /\ (~openai_client \/ Len(db_skills[q.candidate_id]) < 3))
            => /\ q.generator_calls = 0
               /\ q.status = 200
               /\ SourceOf(q.response) = Str(<<"template">>)

\* the request's cache write failed
WriteFailed(q) ==
    /\ q.pc \in {"respond", "done"}
    /\ q.cache_writes = 1
    /\ q.wrote = NoRow

\* the response carries the fields of the summary as it was computed
SameSummary(q) ==
    \A i \in 1 .. Len(ResponseFields) :
        DictGet(q.response, Key(ResponseFields[i]))
            = DictGet(q.summary_data, Key(ResponseFields[i]))

FailedWriteKeepsTable ==
    \A r \in Requests :
        (/\ requests[r].pc = "write"
         /\ requests'[r].pc = "respond"
         /\ requests'[r].wrote = NoRow)
        => cache' = cache

FailedWriteStillAnswers ==
    \A r \in Requests :
        (WriteFailed(requests[r]) /\ requests[r].pc = "done")
        => /\ requests[r].status = 200
           /\ HasRequiredFields(requests[r].response)
           /\ SameSummary(requests[r])

(* C18: a request whose cache write failed still ends with status 200 and  *)
(* a response that carries the summary as it was computed before the       *)
(* write; the step of the failed write leaves the cache table as it was,   *)
(* so no new or partial row is stored under the key.                       *)
C18_FailedWriteIgnored ==
    /\ []FailedWriteStillAnswers
    /\ [][FailedWriteKeepsTable]_vars

\* a failed write over an entry that stays stored, answered with 200
C18_Witness ==
    \E r \in Requests :
        /\ WriteFailed(requests[r])
        /\ requests[r].pc = "done"
        /\ requests[r].status = 200
        /\ RowOf(cache, CacheKey(requests[r].candidate_id,
                                 requests[r].context)) # NoRow

-----------------------------------------------------------------------------
(* Properties of the attempt loop of _generate_ai_summary (SpecAILive,     *)
(* SpecAI).                                                                *)

\* calls started and not yet ended
InFlight == a_calls - Len(a_outcomes)

AiSource == SourceOf(a_result.data) = Str(<<"ai">>)
TemplateFallback ==
    a_result = _generate_template_summary(a_skills, HealthOf(a_skills))

CallsBounded ==
    /\ a_calls <= MAX_RETRIES
    /\ InFlight \in {0, 1}
    /\ InFlight = 1 <=> a_pc = "await"
    /\ a_pc = "done" => (a_result.kind = "return" /\ AiSource) \/ TemplateFallback

(* C19: one call of _generate_ai_summary calls the generator at most       *)
(* MAX_RETRIES = 3 times, a call starts only when none is in flight, and   *)
(* the loop ends: the call eventually returns, with a result of source ai  *)
(* or with what the template fallback gives.                               *)
C19_LoopBoundedAndEnds ==
    /\ []CallsBounded
    /\ <>(a_pc = "done")

\* the third call was made and failed, and the call has ended
C19_Witness ==
    /\ a_calls = MAX_RETRIES
    /\ Len(a_outcomes) = MAX_RETRIES
    /\ a_pc = "done"
    /\ TemplateFallback

-----------------------------------------------------------------------------
(* What _generate_ai_summary does with the message it received (SpecAI).  *)

\* the last call returned a message and no later call has been made
Answered ==
    /\ a_outcomes # <<>>
    /\ Len(a_outcomes) = a_calls
    /\ a_outcomes[Len(a_outcomes)] = "message"

\* what lines 2709-2718 make of that message
LastLoaded == ParseContent(a_content)

\* a JSON object or array in which a required field is not found
LacksField(v) ==
    /\ v.t \in {"dict", "list"}
    /\ \E i \in 1 .. Len(required_fields) :
         IF v.t = "dict"
         THEN ~DictHas(v, Key(required_fields[i]))
         ELSE \A j \in 1 .. Len(v.items) :
                 v.items[j] # Str(Key(required_fields[i]))

TemplateSource ==
    /\ a_result.kind = "return"
    /\ SourceOf(a_result.data) = Str(<<"template">>)

-----------------------------------------------------------------------------
(* Properties of the cache table under overlapping requests (Spec).        *)

KeyOf(q) == CacheKey(q.candidate_id, q.context)
RowsUnder(table, cache_key) == {e \in table : e.cache_key = cache_key}

OneEntryPerKey ==
    \A e1 \in cache, e2 \in cache : e1.cache_key = e2.cache_key => e1 = e2

\* request r's cache write is applied in this step
WriteApplied(r) ==
    /\ requests[r].pc = "write"
    /\ requests'[r].pc = "respond"
    /\ requests'[r].wrote # NoRow

WriteReplaces ==
    \A r \in Requests :
        WriteApplied(r) =>
            cache' = (cache \ RowsUnder(cache, KeyOf(requests[r])))
                     \cup {[cache_key |-> KeyOf(requests[r]),
                            summary_data |->
                                JsonDumps(requests[r].summary_data),
                            expires_at |-> now + SUMMARY_CACHE_HOURS]}

RegenerateSkipsRead ==
    \A r \in Requests :
        (/\ requests[r].regenerate
         /\ requests[r].pc = "check"
         /\ requests'[r] # requests[r])
        => /\ requests'[r] = [requests[r] EXCEPT !.pc = "generate"]
           /\ cache' = cache

RegenerateOverwrites ==
    \A r \in Requests :
        LET q == requests[r]
        IN  (q.regenerate /\ q.pc = "done" /\ Stored(q))
            => /\ ~q.cache_hit
               /\ q.status = 200
               /\ q.cache_writes = 1
               /\ q.wrote # NoRow =>
                     q.wrote.summary_data = JsonDumps(q.summary_data)

(* C22: the cache table never holds two rows under one key; a cache write  *)
(* that is applied removes the row stored under its key and stores the     *)
(* request's payload with expires_at SUMMARY_CACHE_HOURS after the time of *)
(* the write; a request with regenerate goes from the candidate lookup to  *)
(* generation without reading the table, and when it has finished it has   *)
(* produced a result of its own, called the cache write once and, unless   *)
(* that write failed, stored that result under its key.                    *)
C22_OneEntryPerKey ==
    /\ []OneEntryPerKey
    /\ []RegenerateOverwrites
    /\ [][WriteReplaces /\ RegenerateSkipsRead]_vars

\* the same without the last part, which is what the handler keeps
C22_TableDiscipline ==
    /\ []OneEntryPerKey
    /\ [][WriteReplaces /\ RegenerateSkipsRead]_vars

\* two finished requests for one key, neither served from the cache
BothGenerated(r1, r2) ==
    /\ r1 # r2
    /\ requests[r1].pc = "done" /\ requests[r2].pc = "done"
    /\ Stored(requests[r1])
    /\ KeyOf(requests[r1]) = KeyOf(requests[r2])
    /\ ~requests[r1].cache_hit /\ ~requests[r2].cache_hit

OverlappingBothAnswer ==
    \A r1 \in Requests, r2 \in Requests :
        BothGenerated(r1, r2) =>
            /\ \A r \in {r1, r2} :
                  /\ FullResult(requests[r])
                  /\ SameSummary(requests[r])
                  /\ requests[r].cache_writes = 1
            /\ (requests[r1].wrote # NoRow /\ requests[r2].wrote # NoRow)
               => /\ Cardinality(RowsUnder(cache, KeyOf(requests[r1]))) = 1
                  /\ RowOf(cache, KeyOf(requests[r1]))
                        \in {requests[r1].wrote, requests[r2].wrote}

LastWriteStays ==
    \A r \in Requests :
        WriteApplied(r) =>
            RowsUnder(cache', KeyOf(requests[r])) = {requests'[r].wrote}

(* C23: two requests for one key of a stored candidate that both go        *)
(* through generation, in any interleaving of their steps, both end with   *)
(* status 200 and a full result built from their own summary, each calls   *)
(* the cache write once, and when both writes were applied the table holds *)
(* exactly one row under the key; every applied write leaves its own row   *)
(* as the only row under the key, so that row is the one of the write      *)
(* applied last.                                                           *)
C23_OverlappingRequests ==
    /\ []OverlappingBothAnswer
    /\ [][LastWriteStays]_vars

\* the candidate passes the eligibility test of lines 2592-2600
Eligible(q) ==
    /\ Stored(q)
    /\ openai_client
    /\ Len(db_skills[q.candidate_id]) >= 3

(* C26: a finished request for an eligible candidate whose generation      *)
(* ended in the template fallback has status 200 and source template, and  *)
(* has called the cache write, which, unless it failed, stored the         *)
(* template payload under the key; a later request without regenerate      *)
(* that reads that row before its expires_at returns the same response     *)
(* with no generator call and no cache write.                              *)
C26_TemplateResultCached ==
    \A r1 \in Requests :
        LET q == requests[r1]
        IN  (q.pc = "done" /\ Eligible(q) /\ ~q.cache_hit)
            => /\ q.status = 200
               /\ SourceOf(q.response) = Str(<<"template">>)
               /\ q.cache_writes = 1
               /\ q.wrote # NoRow =>
                     /\ q.wrote.summary_data = JsonDumps(q.summary_data)
                     /\ \A r2 \in Requests :
                           (ReadLive(requests[r2])
                            /\ requests[r2].saw = q.wrote)
                           => /\ requests[r2].response = q.response
                              /\ requests[r2].generator_calls = 0
                              /\ requests[r2].cache_writes = 0

-----------------------------------------------------------------------------
(* Properties of the series and statistics of a trend result (SpecTrends,  *)
(* SpecSynthetic).                                                         *)

\* the records of the skill within the last `months` months, oldest first
Records(skill_name, months) ==
    OrderedBy({rec \in t_history :
                  /\ LowerMatch(rec.skill_name, skill_name)
                  /\ rec.month >= t_today - months}, "month")

(* C24: in an answered request whose lookup did not fail, the series of a  *)
(* skill with k >= 1 stored records within the requested months has        *)
(* exactly `months` points; when k < months its last k points are the      *)
(* records in their order and every point before them is                   *)
(* max(30, the next point - 2).                                            *)
C24_PaddedToMonths ==
    (t_response.status = 200 /\ ~t_query.fault) =>
        \A i \in 1 .. Len(t_response.skills) :
            LET entry == t_response.skills[i]
                months == t_query.months
                recs == Records(entry.name, months)
                k == Len(recs)
                series == entry.data.monthly_demand
            IN  k >= 1 =>
                    /\ Len(series) = months
                    /\ k < months =>
                          /\ \A j \in 1 .. k :
                                series[months - k + j] = recs[j].demand_score
                          /\ \A j \in 1 .. months - k :
                                series[j] = Max(30, series[j + 1] - 2)

\* the statistics of a result are those of the series it returns
FirstOf(data) == data.monthly_demand[1]
LastOf(data) == data.monthly_demand[Len(data.monthly_demand)]

ExactPercent(data) ==
    IF FirstOf(data) = 0 THEN data.percent_change = 0
    ELSE data.percent_change * FirstOf(data)
            = (LastOf(data) - FirstOf(data)) * 1000

\* within 0.05 of the exact percentage: the value rounded to one decimal
RoundedPercent(data) ==
    IF FirstOf(data) = 0 THEN data.percent_change = 0
    ELSE LET off == data.percent_change * FirstOf(data)
                       - (LastOf(data) - FirstOf(data)) * 1000
         IN  /\ 2 * off <= FirstOf(data)
             /\ 2 * (0 - off) <= FirstOf(data)

\* C28 as claimed: percent_change is the exact percentage
C28_StatisticsOriginal ==
    t_response.status = 200 =>
        \A i \in 1 .. Len(t_response.skills) :
            LET data == t_response.skills[i].data
            IN  /\ data.current_demand = LastOf(data)
                /\ ExactPercent(data)

(* C28: in every trend result of an answered request, current_demand is    *)
(* the last element of the returned monthly_demand, and percent_change is  *)
(* (last - first) / first * 100 of the first and last elements of that     *)
(* series rounded to one decimal (0 when first is 0).                      *)
C28_StatisticsOfSeries ==
    t_response.status = 200 =>
        \A i \in 1 .. Len(t_response.skills) :
            LET data == t_response.skills[i].data
            IN  /\ data.monthly_demand # <<>>
                /\ data.current_demand = LastOf(data)
                /\ RoundedPercent(data)

\* Kubernetes over 6 months: 78 to 82 is 5.128... per cent, returned as 5.1
C28_Witness ==
    /\ t_response.status = 200
    /\ \E i \in 1 .. Len(t_response.skills) :
          LET data == t_response.skills[i].data
          IN  /\ FirstOf(data) = 78
              /\ data.current_demand = 82
              /\ data.percent_change = 51

\* C29 as claimed: the label agrees with the thresholds on percent_change
C29_LabelOriginal ==
    y_result # NoTrend =>
        /\ y_result.trend = "rising" => y_result.percent_change > 50
        /\ y_result.trend = "declining" => y_result.percent_change < 0 - 50
        /\ y_result.trend = "stable" =>
              /\ y_result.percent_change >= 0 - 50
              /\ y_result.percent_change <= 50

(* C29: the label of a synthetic result is the keyword class of the name   *)
(* and agrees with percent_change in direction only: rising implies        *)
(* percent_change >= 0, declining implies percent_change <= 0, and stable  *)
(* implies -5 <= percent_change <= 5.                                      *)
C29_LabelDirection ==
    y_result # NoTrend =>
        /\ y_result.trend = TrendType(LowerText(y_name))
        /\ y_result.trend = "rising" => y_result.percent_change >= 0
        /\ y_result.trend = "declining" => y_result.percent_change <= 0
        /\ y_result.trend = "stable" =>
              /\ y_result.percent_change >= 0 - 50
              /\ y_result.percent_change <= 50

\* TypeScript over 6 months: labelled rising with 82 to 86, 4.9 per cent
C29_Witness ==
    /\ y_months = 6
    /\ y_result # NoTrend
    /\ y_result.trend = "rising"
    /\ y_result.percent_change = 49

-----------------------------------------------------------------------------
(* The salary estimate over the documented proficiency range (SpecSalary). *)

\* the estimate before the clamp to 1.5 .. 15, in thousandths of a lakh
Unclamped(demand, current, target) ==
    Clamp(30, 100, demand) * Max(3, 2 * (target - current))

NoMarket == [x \in {} |-> MarketEntry(0, 0, 0)]

-----------------------------------------------------------------------------
(* The extremes of the match score (SpecGap).                              *)

\* no required skill of the role has an entry in matching_skills
NoRequiredMatched ==
    \A i \in 1 .. Len(TheRole.required_skills) :
        CountNamed(g_result.matching_skills,
                   TheRole.required_skills[i].name) = 0

-----------------------------------------------------------------------------
(* Properties of the market-demand cache (SpecMarket).                     *)

\* the request took the path without skills and has passed line 70
PassedCheck(q) == ~SkillsGiven(q.skills) /\ q.pc \in {"fetch", "done"}

\* the slot as the request read it was younger than an hour and not empty
SawFresh(q) ==
    /\ q.saw_time # Unset
    /\ q.now - q.saw_time < CACHE_DURATION
    /\ q.saw_data # EmptyDemand

CachedOnlyIfFresh ==
    \A r \in MarketRequests :
        LET q == md_requests[r]
        IN  PassedCheck(q) =>
                /\ q.hit <=> SawFresh(q)
                /\ q.hit => /\ q.pc = "done"
                            /\ q.status = 200
                            /\ q.response = q.saw_data

\* request r's query of the whole table returns in this step
Refetched(r) ==
    /\ md_requests[r].pc = "fetch"
    /\ md_requests'[r].pc = "done"
    /\ md_requests'[r].status = 200

SlotReplacedWhole ==
    /\ \A r \in MarketRequests :
          Refetched(r) =>
              /\ cached_data' = md_table
              /\ last_cache_time' = md_requests[r].now
              /\ md_requests'[r].response = md_table
    /\ <<cached_data, last_cache_time>>' # <<cached_data, last_cache_time>>
       => \E r \in MarketRequests : Refetched(r)

SkillListLeavesSlot ==
    \A r \in MarketRequests :
        (/\ SkillsGiven(md_requests'[r].skills)
         /\ md_requests'[r] # md_requests[r])
        => /\ <<cached_data, last_cache_time>>'
                 = <<cached_data, last_cache_time>>
           /\ (md_requests[r].pc = "query" /\ md_requests'[r].status = 200)
              => LET answer == md_requests'[r].response
                     asked == Elems(SkillNamesOf(md_requests[r].skills))
                 IN  /\ DOMAIN answer = DOMAIN md_table \cap asked
                     /\ \A n \in DOMAIN answer : answer[n] = md_table[n]

(* C25: a request without skills returns the cached dictionary exactly     *)
(* when the slot it read carries a time less than CACHE_DURATION before    *)
(* the request's `now` and a non-empty dictionary; otherwise it queries    *)
(* the table and, unless the query fails, assigns cached_data and          *)
(* last_cache_time in one step, the dictionary read and the request's      *)
(* `now`.  Nothing else changes the slot: a request with a skill list      *)
(* leaves both globals as they are and answers from the table alone.       *)
C25_OneGlobalSlot ==
    /\ []CachedOnlyIfFresh
    /\ [][SlotReplacedWhole /\ SkillListLeavesSlot]_vars

\* a request that read a non-empty slot exactly one hour old, queried the
\* table and replaced the slot
C25_Witness ==
    \E r \in MarketRequests :
        /\ PassedCheck(md_requests[r])
        /\ md_requests[r].pc = "done"
        /\ md_requests[r].status = 200
        /\ md_requests[r].saw_data # EmptyDemand
        /\ md_requests[r].saw_time = 0
        /\ md_requests[r].now = CACHE_DURATION
        /\ ~md_requests[r].hit
        /\ last_cache_time = CACHE_DURATION

====
